---- MODULE Spec2Model ----
(***************************************************************************)
(* Outrider: the deployment pipeline (Orchestrator.run), its two fan-out   *)
(* stages over a ThreadPoolExecutor, and the SSH transport with its        *)
(* lock-protected client cache.                                            *)
(*                                                                         *)
(* A "unit" is the work done for one target in one fan-out stage (the body *)
(* of transfer_worker / post_instruction_worker, or the inline call made   *)
(* for a single target).  Units are identified by the index of their       *)
(* target in config.targets.                                               *)
(***************************************************************************)
EXTENDS Integers, Sequences, FiniteSets, TLC

\* ------------------------------------------------------------------ bounds
MaxTargets == 2
MaxImages == 2
\* threads calling the transport directly
MaxCallers == 2
\* threads calling file_exists_remote or execute_remote directly
MaxProbes == 2
\* calls made on one CacheManager, changes of the archive included
MaxCacheOps == 3
\* the latest modification time the archive can get
MaxMtime == 2
\* calls made on one ResumeManager, changes of the local file included
MaxLedgerOps == 3
\* targets of a post-instruction stage run on its own
MaxPostTargets == 2

\* -------------------------------------------------------- program constants
\* cli.py:104   max(1, min(10, max_concurrent_uploads))
UploadsMin == 1
UploadsMax == 10

\* Values of --max-concurrent-uploads / max_concurrent_uploads that callers pass:
\* below the range, inside it, at its upper end and above it.
RequestedUploads == {0, 2, UploadsMax + 1}

HostStates == {"up", "down", "flaky"}
KnownPlugins == {"k3s_airgap", "generic_ssh", "docker"}

VARIABLES
    \* configuration (fixed by Init)
    num_images,              \* len(config.images)
    num_targets,             \* len(config.targets)
    host_key,                \* target -> resolved "hostname:port" key
    host_state,              \* key -> "up" | "down" | "flaky"
    requested,               \* the concurrency value given by the caller
    via_cli,                 \* TRUE: given to `deploy`; FALSE: given to Orchestrator(...)
    max_concurrent_uploads,  \* Orchestrator.max_concurrent_uploads
    global_post,             \* config.post_instructions
    target_post,             \* target -> target.post_instructions
    skip_if_exists,          \* target -> the skip_if_exists argument of transfer_file
    call,                    \* unit -> "pipeline", or the transport method called directly
    remote_out,              \* key -> <<stdout, stderr>> bytes a command writes there
    no_cache,                \* the no_cache argument given for the Orchestrator
    config_no_cache,         \* config.no_cache
    skip_host_verification,  \* Orchestrator.skip_host_verification
    known_hosts,             \* keys of the hosts listed in the user's known_hosts
    transport_options,       \* config.transport_config["options"]: key_file, password
    ssh_options,             \* target -> the ssh_options declared for the target
    key_files,               \* the key files that exist on disk
    authorized,              \* key -> the credentials the host accepts
    \* local file system
    tar_exists,              \* os.path.exists(config.output_tar)
    saves,                   \* times runtime.save_images was called
    \* Orchestrator.run
    run_pc,                  \* where run is
    run_result,              \* "none" until run has a return value
    pull_idx, pull_ok,       \* _pull_images: loop index, all_success
    pulls,                   \* _pull_images: <<position of the image, result of pull_image>>, in call order
    stages_started,          \* the stages entered so far, in order
    outcome,                 \* stage -> "none" | "true" | "false" | "raised"
    \* the fan-out stages
    stage,                   \* the fan-out stage last entered
    smode,                   \* stage -> "none" | "inline" | "pool"
    all_success,             \* the stage's all_success
    pool_size,               \* max_workers of the stage's ThreadPoolExecutor
    pools_created,           \* ThreadPoolExecutor instances created so far
    \* units
    pc,                      \* unit -> position
    op,                      \* unit -> the transport operation in progress
    res,                     \* stage -> unit -> "none" | "true" | "false"
    started,                 \* stage -> unit -> times the unit was started
    \* SSHTransport
    clients,                 \* keys of SSHTransport.clients
    clients_lock,            \* <<>> when free, <<t>> when held by unit t
    live,                    \* key -> connected sessions not yet closed
    opened,                  \* key -> successful client.connect calls
    closed,                  \* key -> client.close calls
    connect_failures,        \* key -> failed client.connect calls
    \* remote side
    remote_file,             \* key -> the remote archive path exists
    remote_dir,              \* key -> the remote parent directory exists
    call_exists,             \* unit -> remote_file when transfer_file was entered
    remote_log,              \* unit -> the remote operations it issued, in order
    sftp,                    \* unit -> <<SFTP channels it opened, channels it closed>>
    exec_ret,                \* unit -> what execute_remote returned for its command
    logged,                  \* unit -> the failure lines the transport logged for it
    \* CacheManager and the archive it is asked about
    metadata_file,           \* the document in metadata.json
    metadata,                \* self.metadata
    file_exists,             \* os.path.exists(file_path)
    file_bytes,              \* the content of the archive
    file_mtime,              \* os.path.getmtime(file_path)
    cache_ops,               \* the calls made so far, with what they returned
    \* ResumeManager and the local file of the transfers
    ledger,                  \* resume key -> the document in <key>.json
    local_exists,            \* the local file is there
    local_size,              \* os.path.getsize(local_path)
    local_mtime,             \* os.path.getmtime(local_path)
    now,                     \* time.time(), in seconds
    ledger_ops               \* the calls made so far, with what they returned

cfg_vars == <<num_images, num_targets, host_key, host_state, requested, via_cli,
              max_concurrent_uploads, global_post, target_post, skip_if_exists,
              call, remote_out, no_cache, config_no_cache, skip_host_verification,
              known_hosts, transport_options, ssh_options, key_files, authorized>>
run_vars == <<run_pc, run_result, pull_idx, pull_ok, pulls, stages_started, outcome>>
stage_vars == <<stage, smode, all_success, pool_size, pools_created>>
unit_vars == <<pc, op, res, started>>
ssh_vars == <<clients, clients_lock, live, opened, closed, connect_failures>>
remote_vars == <<remote_file, remote_dir, call_exists, remote_log, sftp>>
cache_vars == <<metadata_file, metadata, file_exists, file_bytes, file_mtime, cache_ops>>
ledger_vars == <<ledger, local_exists, local_size, local_mtime, now, ledger_ops>>
store_vars == <<cache_vars, ledger_vars>>
pipeline_vars == <<cfg_vars, tar_exists, saves, run_vars, stage_vars, unit_vars, ssh_vars, remote_vars,
                   exec_ret, logged>>
vars == <<pipeline_vars, store_vars>>

Targets == 1..num_targets
Keys == {host_key[t] : t \in Targets}
StageOrder == <<"pull", "compress", "transfer", "post">>
StageNames == {"pull", "compress", "transfer", "post"}
FanOutStages == {"transfer", "post"}

Min(a, b) == IF a < b THEN a ELSE b
Max(a, b) == IF a > b THEN a ELSE b
Range(q) == {q[i] : i \in DOMAIN q}

\* ------------------------------------------------------------ dictionaries
\* A Python dict is a function from its keys; {} is the function with no keys.
EmptyDict == [k \in {} |-> ""]
Has(d, k) == k \in DOMAIN d
\* d.get(k) with None rendered as "" (both are falsy)
Get(d, k) == IF Has(d, k) THEN d[k] ELSE ""
\* a copy of d after d.update(e)
Update(d, e) == [k \in (DOMAIN d) \cup (DOMAIN e) |-> IF k \in DOMAIN e THEN e[k] ELSE d[k]]
\* d[k] = v
SetItem(d, k, v) == Update(d, [x \in {k} |-> v])

\* Python values of post-instruction options, written as their repr.
PyTrue == "True"
PyFalse == "False"
IsBool(v) == v \in {PyTrue, PyFalse}
\* strings: a command using the {tar_path} placeholder, the empty string, and a
\* command with a placeholder str.format cannot fill
CmdOk == "'load {tar_path}'"
CmdEmpty == "''"
CmdBadFormat == "'run {missing}'"
\* other strings: a docker command, a sudo password, the words yes and no
Strings == {CmdOk, CmdEmpty, CmdBadFormat, "'podman'", "'secret'", "'yes'", "'no'"}
IsStr(v) == v \in Strings

\* cli.py deploy: the clamp applied before the Orchestrator is constructed
ClampUploads(n) == Max(UploadsMin, Min(UploadsMax, n))

\* The resolved key of each target: all distinct, or the first two targets
\* resolving to the same "hostname:port".
HostAssignments(n) ==
    {[t \in 1..n |-> t]} \cup
    (IF n >= 2 THEN {[t \in 1..n |-> IF t = 2 THEN 1 ELSE t]} ELSE {})

GlobalPostConfigs == {EmptyDict, [plugin |-> "docker"]}
TargetPostConfigs ==
    {EmptyDict, [plugin |-> "generic_ssh", options |-> [command |-> CmdBadFormat]]}

B2S(b) == IF b THEN "true" ELSE "false"

\* ------------------------------------------------------------ environment
\* What the network and the remote host may answer.  An "up" host accepts the
\* session and every operation succeeds; a "down" host refuses every session
\* (unreachable, or authentication fails); on a "flaky" host every attempt may
\* go either way.
ConnectOutcomes(k) ==
    CASE host_state[k] = "up" -> {TRUE}
      [] host_state[k] = "down" -> {FALSE}
      [] OTHER -> BOOLEAN
IoOutcomes(k) == IF host_state[k] = "flaky" THEN BOOLEAN ELSE {TRUE}
\* sftp.makedirs(remote_dir): paramiko's SFTPClient has mkdir but no makedirs,
\* so the call raises AttributeError there; a client object that has the method
\* (the tests' mock) creates the directory.  Both outcomes on every host.
MkdirOutcomes(k) == BOOLEAN

\* ---- credentials
\* key files named in configurations, the default key, and the two
\* credentials paramiko finds by itself
GlobalKey == "/keys/global"
TargetKey == "/keys/target"
DefaultKey == "~/.ssh/id_rsa"
Agent == "SSH agent"
DiscoverableKeys == "~/.ssh/ keys"
Remove(d, k) == [x \in DOMAIN d \ {k} |-> d[x]]

\* Config.targets: the ssh_options of the RemoteHost of target t are the global
\* key_file and password, overridden by the ssh_options declared for the target
TargetSshOptions(t) ==
    LET g0 == IF Has(transport_options, "key_file")
              THEN SetItem(EmptyDict, "key_file", transport_options["key_file"])
              ELSE EmptyDict
        g1 == IF Has(transport_options, "password")
              THEN SetItem(g0, "password", transport_options["password"])
              ELSE g0
    IN  IF DOMAIN ssh_options[t] # {} THEN Update(g1, ssh_options[t]) ELSE g1

\* SSHTransport.__init__: self.key_file is the configured key file if it is on
\* disk, the default key if none is configured and the default is on disk, and
\* None ("" here) otherwise
SelfKeyFile ==
    IF Get(transport_options, "key_file") # ""
    THEN IF transport_options["key_file"] \in key_files
         THEN transport_options["key_file"] ELSE ""
    ELSE IF DefaultKey \in key_files THEN DefaultKey ELSE ""

\* _merge_ssh_config without an SSH config file: the key_filename and password
\* entries of the parameters given to client.connect
MergeSshConfig(t) ==
    LET o == TargetSshOptions(t)
        c1 == IF SelfKeyFile # "" THEN SetItem(EmptyDict, "key_filename", SelfKeyFile)
              ELSE EmptyDict
        c2 == IF Get(transport_options, "password") # ""
              THEN SetItem(c1, "password", transport_options["password"]) ELSE c1
        c3 == IF Has(o, "key_file")
              THEN IF o["key_file"] \in key_files
                   THEN SetItem(c2, "key_filename", o["key_file"])
                   ELSE Remove(c2, "key_filename")
              ELSE c2
        c4 == IF Has(o, "password") THEN SetItem(c3, "password", o["password"]) ELSE c3
    IN  c4

\* what client.connect tries with these parameters, in paramiko's order: the
\* key file, the agent, the discoverable keys (allow_agent and look_for_keys
\* keep their default True), the password
AuthMethods(config) ==
    (IF Get(config, "key_filename") # "" THEN <<config["key_filename"]>> ELSE <<>>)
    \o <<Agent, DiscoverableKeys>>
    \o (IF Get(config, "password") # "" THEN <<config["password"]>> ELSE <<>>)
Authenticates(t) == Range(AuthMethods(MergeSshConfig(t))) \cap authorized[host_key[t]] # {}

\* ---- host keys
\* _get_client builds a new SSHClient and loads no host keys into it, so the
\* key of every host is missing and the policy set for missing keys decides
ClientHostKeys == {}
MissingHostKeyPolicy == IF skip_host_verification THEN "WarningPolicy" ELSE "AutoAddPolicy"
\* paramiko: AutoAddPolicy adds the key and goes on, WarningPolicy warns and
\* goes on, RejectPolicy raises
PolicyAccepts(policy) == policy \in {"AutoAddPolicy", "WarningPolicy"}
HostKeyAccepted(k) == k \in ClientHostKeys \/ PolicyAccepts(MissingHostKeyPolicy)

\* client.connect(**connect_config) for target t
SessionOutcomes(t) ==
    IF HostKeyAccepted(host_key[t]) /\ Authenticates(t)
    THEN ConnectOutcomes(host_key[t]) ELSE {FALSE}

\* the exit status of a remote command: 0 on an "up" host, 0 or not on a "flaky" one
ExitCodes == {0, 2}
ExitOutcomes(k) == IF host_state[k] = "flaky" THEN ExitCodes ELSE {0}

\* --------------------------------------------------------- command output
\* Output is a sequence of bytes, a Python str a sequence of code points.
\* The bytes a remote command may write: nothing, ASCII, a two-byte UTF-8
\* sequence, a byte that starts no UTF-8 sequence, a lead byte without its
\* continuation byte.
RemoteOutputs == {<<>>, <<111, 107>>, <<195, 169>>, <<255>>, <<195, 107>>}

\* bytes.decode("utf-8", errors="replace") for bytes below 0xE0 and 0xFF:
\* ASCII maps to itself, a lead byte 0xC2..0xDF with a continuation byte to its
\* code point, every other byte to U+FFFD
RECURSIVE DecodeReplace(_)
DecodeReplace(b) ==
    IF b = <<>> THEN <<>>
    ELSE IF b[1] < 128 THEN <<b[1]>> \o DecodeReplace(Tail(b))
    ELSE IF b[1] \in 194..223 /\ Len(b) >= 2 /\ b[2] \in 128..191
         THEN <<(b[1] - 192) * 64 + (b[2] - 128)>> \o DecodeReplace(SubSeq(b, 3, Len(b)))
    ELSE <<65533>> \o DecodeReplace(Tail(b))

\* variant: undecodable output makes the call fail (errors="strict")
ExecResultStrict(code, out, err) ==
    IF 65533 \in Range(DecodeReplace(out)) \cup Range(DecodeReplace(err))
    THEN <<1, <<>>, <<101, 114, 114>>>>
    ELSE <<code, DecodeReplace(out), DecodeReplace(err)>>

\* `return return_code, stdout_str, stderr_str`
ExecResult(code, out, err) == <<code, DecodeReplace(out), DecodeReplace(err)>>
\* variant: a command that could not be run is reported with exit code 0
ExecRaisedAsZero == <<0, <<>>, <<101, 114, 114>>>>
\* `return 1, "", str(e)`: the text of the exception is "err" here
ExecRaised == <<1, <<>>, <<101, 114, 114>>>>

\* ------------------------------------------------------------------ units
Running == {t \in Targets : pc[t] \in {"gc_wait", "gc_connect", "io"}}
Queued == {t \in Targets : pc[t] = "queued"}

UnitNext(s, t, newpc, newop, newres) ==
    /\ pc' = [pc EXCEPT ![t] = newpc]
    /\ op' = [op EXCEPT ![t] = newop]
    /\ res' = [res EXCEPT ![s][t] = newres]
\* the unit's call returns ok to the stage
Return(s, t, ok) == UnitNext(s, t, "finished", "none", B2S(ok))
\* a direct call of execute_remote returns (its value is exec_ret)
ReturnTriple(s, t) == UnitNext(s, t, "finished", "none", "returned")
\* the unit goes on to its next transport operation, which starts in _get_client
Continue(s, t, nextop) == UnitNext(s, t, "gc_wait", nextop, res[s][t])

Log(t, events) == remote_log' = [remote_log EXCEPT ![t] = @ \o events]

\* client.open_sftp() returned a channel (or raised), sftp.close() was called (or not)
Channel(t, was_opened, was_closed) ==
    sftp' = [sftp EXCEPT ![t] = <<@[1] + (IF was_opened THEN 1 ELSE 0),
                                  @[2] + (IF was_closed THEN 1 ELSE 0)>>]

\* logger.error / logger.debug lines of the transport's exception handlers
Emit(t, lines) == logged' = [logged EXCEPT ![t] = @ \o lines]
\* the line the handler of the method running operation o writes
CallerLog(o) ==
    CASE o = "exists" -> <<"debug:exists">>
      [] o = "put" -> <<"error:transfer">>
      [] OTHER -> <<"error:execute">>
\* variant: a refused connection leaves no trace in the log
ConnectFailureSilent(o) == <<>>
\* _get_client logs the refused connection and re-raises; the calling method's
\* handler logs in its turn
ConnectFailureLog(o) == <<"error:connect">> \o CallerLog(o)

\* ----------------------------------------------------- post-instructions
\* config.get("options"), with None rendered as {} (both are falsy)
OptionsOf(config) == IF Has(config, "options") THEN config.options ELSE EmptyDict

\* The three dictionaries of _merge_post_instructions after it has run: the
\* options of the two arguments and the new dictionary merged_options.
\* variant: merged_options is the global options dictionary itself
MergeOptionsInPlace(global_config, target_config) ==
    LET written == DOMAIN OptionsOf(target_config) # {}
        merged == Update(OptionsOf(global_config), OptionsOf(target_config))
    IN  [global |-> IF written THEN merged ELSE OptionsOf(global_config),
         target |-> OptionsOf(target_config),
         merged |-> merged]
MergeOptions(global_config, target_config) ==
    LET h0 == [global |-> OptionsOf(global_config),
               target |-> OptionsOf(target_config),
               merged |-> EmptyDict]
        h1 == IF DOMAIN h0.global # {}
              THEN [h0 EXCEPT !.merged = Update(@, h0.global)] ELSE h0
        h2 == IF DOMAIN h1.target # {}
              THEN [h1 EXCEPT !.merged = Update(@, h1.target)] ELSE h1
    IN  h2

\* Orchestrator._merge_post_instructions: <<plugin_type, merged_options>>
MergePostInstructions(global_config, target_config) ==
    LET plugin_type == IF Get(target_config, "plugin") # ""
                       THEN Get(target_config, "plugin")
                       ELSE Get(global_config, "plugin")
    IN  <<plugin_type, MergeOptions(global_config, target_config).merged>>

\* validate_options of the three plugins: the types of the declared keys
\* variant: use_sudo is not checked
ValidateOptionsSudoUnchecked(plugin, options) ==
    /\ plugin = "generic_ssh" => Has(options, "command") /\ IsStr(options["command"])
    /\ plugin = "docker" => (Has(options, "docker_cmd") => IsStr(options["docker_cmd"]))
    /\ plugin = "k3s_airgap" =>
           /\ Has(options, "k3s_path") => IsStr(options["k3s_path"])
           /\ Has(options, "containerd_path") => IsStr(options["containerd_path"])
    /\ plugin \in {"docker", "k3s_airgap"} =>
           (Has(options, "cleanup_tar") => IsBool(options["cleanup_tar"]))
    /\ Has(options, "sudo_password") => IsStr(options["sudo_password"])

ValidateOptions(plugin, options) ==
    /\ plugin = "generic_ssh" => Has(options, "command") /\ IsStr(options["command"])
    /\ plugin = "docker" => (Has(options, "docker_cmd") => IsStr(options["docker_cmd"]))
    /\ plugin = "k3s_airgap" =>
           /\ Has(options, "k3s_path") => IsStr(options["k3s_path"])
           /\ Has(options, "containerd_path") => IsStr(options["containerd_path"])
    /\ plugin \in {"docker", "k3s_airgap"} =>
           (Has(options, "cleanup_tar") => IsBool(options["cleanup_tar"]))
    /\ Has(options, "use_sudo") => IsBool(options["use_sudo"])
    /\ Has(options, "sudo_password") => IsStr(options["sudo_password"])

\* options.get("cleanup_tar", True) of DockerPlugin and K3sAirgapPlugin
WantsCleanup(plugin, options) ==
    /\ plugin \in {"docker", "k3s_airgap"}
    /\ (Has(options, "cleanup_tar") => options["cleanup_tar"] = PyTrue)

EffectivePost(t) == MergePostInstructions(global_post, target_post[t])

\* variant: a name that is no known plugin is passed over like no name
PostLocalOutcomeLenient(t) ==
    LET plugin == EffectivePost(t)[1]
        options == EffectivePost(t)[2]
    IN  CASE plugin = "" \/ plugin \notin KnownPlugins -> "skip"
          [] ~ValidateOptions(plugin, options) -> "invalid"
          [] plugin = "generic_ssh" /\ options["command"] = CmdBadFormat -> "raise"
          [] plugin = "generic_ssh" /\ options["command"] = CmdEmpty -> "empty"
          [] OTHER -> "exec"

\* What the unit of target t does before its first remote call: merge, plugin
\* lookup, validate_options, command construction.
\*   "skip"     no plugin named for the target
\*   "unknown"  the name is no known plugin
\*   "invalid"  validate_options returned False
\*   "raise"    command.format(tar_path=...) raised (GenericSSHPlugin)
\*   "empty"    GenericSSHPlugin: no command
\*   "exec"     the command is sent to execute_remote
PostLocalOutcome(t) ==
    LET plugin == EffectivePost(t)[1]
        options == EffectivePost(t)[2]
    IN  CASE plugin = "" -> "skip"
          [] plugin \notin KnownPlugins -> "unknown"
          [] ~ValidateOptions(plugin, options) -> "invalid"
          [] plugin = "generic_ssh" /\ options["command"] = CmdBadFormat -> "raise"
          [] plugin = "generic_ssh" /\ options["command"] = CmdEmpty -> "empty"
          [] OTHER -> "exec"

\* transfer_file(..., skip_if_exists: bool = False)
SkipIfExistsDefault == FALSE

\* transfer_file entered: the existence check first when skip_if_exists is set
EnterTransferFile(t) ==
    /\ Continue("transfer", t, IF skip_if_exists[t] THEN "exists" ELSE "put")
    /\ call_exists' = [call_exists EXCEPT ![t] = remote_file[host_key[t]]]

\* variant: a target without a plugin name fails like an unknown plugin
EnterPostInstructionNoSkip(t) ==
    IF PostLocalOutcome(t) = "exec"
    THEN Continue("post", t, "exec")
    ELSE Return("post", t, FALSE)

\* the post-instruction of one target entered (the body up to execute_remote);
\* an exception of the body is caught and gives False
EnterPostInstruction(t) ==
    IF PostLocalOutcome(t) = "exec"
    THEN Continue("post", t, "exec")
    ELSE Return("post", t, PostLocalOutcome(t) = "skip")

\* ------------------------------------------------------------ SSHTransport
\* variant: the lock is released after the lookup, before client.connect
GetClientAcquireLookupOnly(t) ==
    /\ pc[t] = "gc_wait"
    /\ clients_lock = <<>>
    /\ pc' = [pc EXCEPT ![t] = IF host_key[t] \in clients THEN "io" ELSE "gc_connect"]
    /\ UNCHANGED <<store_vars, cfg_vars, exec_ret, logged, tar_exists, saves, run_vars, stage_vars, op, res, started,
                   ssh_vars, remote_vars>>

\* _get_client, up to the cache lookup under the lock.  A cached client is
\* returned at once; otherwise the lock stays held for the connection attempt.
GetClientAcquire(t) ==
    /\ pc[t] = "gc_wait"
    /\ clients_lock = <<>>
    /\ IF host_key[t] \in clients
       THEN /\ pc' = [pc EXCEPT ![t] = "io"]
            /\ UNCHANGED clients_lock
       ELSE /\ pc' = [pc EXCEPT ![t] = "gc_connect"]
            /\ clients_lock' = <<t>>
    /\ UNCHANGED <<store_vars, cfg_vars, exec_ret, logged, tar_exists, saves, run_vars, stage_vars, op, res, started,
                   clients, live, opened, closed, connect_failures, remote_vars>>

\* variant: transfer_file reports a refused session as success
GetClientRaisedAsSuccess(t) ==
    CASE op[t] = "exists" -> Continue(stage, t, "put")
      [] op[t] = "exec" -> Return(stage, t, FALSE)
      [] OTHER -> Return(stage, t, TRUE)

\* variant: transfer_file gives up when its existence check gets no session
GetClientRaisedFailsAtCheck(t) ==
    CASE op[t] = "exists" -> Return(stage, t, FALSE)
      [] op[t] = "put" -> Return(stage, t, FALSE)
      [] op[t] = "exec" -> IF call[t] = "execute_remote"
                           THEN ReturnTriple(stage, t)
                           ELSE Return(stage, t, FALSE)
      [] OTHER -> Return(stage, t, TRUE)

\* What the caller of _get_client does when it raises: file_exists_remote
\* returns False (and transfer_file goes on to the upload), transfer_file
\* returns False, execute_remote returns its error triple (and the plugin
\* returns False, or True when the command was the cleanup).
GetClientRaised(t) ==
    CASE op[t] = "exists" -> IF call[t] = "file_exists_remote"
                             THEN Return(stage, t, FALSE)
                             ELSE Continue(stage, t, "put")
      [] op[t] = "put" -> Return(stage, t, FALSE)
      [] op[t] = "exec" -> IF call[t] = "execute_remote"
                           THEN ReturnTriple(stage, t)
                           ELSE Return(stage, t, FALSE)
      [] OTHER -> Return(stage, t, TRUE)

\* variant: the client whose connect failed is left in the cache
GetClientConnectCachesFailure(t) ==
    /\ pc[t] = "gc_connect"
    /\ clients_lock' = IF clients_lock = <<t>> THEN <<>> ELSE clients_lock
    /\ \E ok \in SessionOutcomes(t) :
        IF ok
        THEN /\ clients' = clients \cup {host_key[t]}
             /\ live' = [live EXCEPT ![host_key[t]] = @ + 1]
             /\ opened' = [opened EXCEPT ![host_key[t]] = @ + 1]
             /\ pc' = [pc EXCEPT ![t] = "io"]
             /\ UNCHANGED <<op, res, connect_failures, exec_ret, logged>>
        ELSE /\ connect_failures' = [connect_failures EXCEPT ![host_key[t]] = @ + 1]
             /\ Emit(t, ConnectFailureLog(op[t]))
             /\ GetClientRaised(t)
             /\ exec_ret' = IF op[t] = "exec"
                            THEN [exec_ret EXCEPT ![t] = ExecRaised]
                            ELSE exec_ret
             /\ clients' = clients \cup {host_key[t]}
             /\ UNCHANGED <<live, opened>>
    /\ UNCHANGED <<store_vars, cfg_vars, tar_exists, saves, run_vars, stage_vars, started, closed, remote_vars>>

\* _get_client: client.connect, the cache insert, and the end of the `with`
\* block, which releases the lock the thread holds.
GetClientConnect(t) ==
    /\ pc[t] = "gc_connect"
    /\ clients_lock' = IF clients_lock = <<t>> THEN <<>> ELSE clients_lock
    /\ \E ok \in SessionOutcomes(t) :
        IF ok
        THEN /\ clients' = clients \cup {host_key[t]}
             /\ live' = [live EXCEPT ![host_key[t]] = @ + 1]
             /\ opened' = [opened EXCEPT ![host_key[t]] = @ + 1]
             /\ pc' = [pc EXCEPT ![t] = "io"]
             /\ UNCHANGED <<op, res, connect_failures, exec_ret, logged>>
        ELSE /\ connect_failures' = [connect_failures EXCEPT ![host_key[t]] = @ + 1]
             /\ Emit(t, ConnectFailureLog(op[t]))
             /\ GetClientRaised(t)
             /\ exec_ret' = IF op[t] = "exec"
                            THEN [exec_ret EXCEPT ![t] = ExecRaised]
                            ELSE exec_ret
             /\ UNCHANGED <<clients, live, opened>>
    /\ UNCHANGED <<store_vars, cfg_vars, tar_exists, saves, run_vars, stage_vars, started, closed, remote_vars>>

\* variant: a channel that cannot be opened counts as "the file is there"
ExistsIOErrorAsPresent(t) ==
    /\ pc[t] = "io" /\ op[t] = "exists"
    /\ \E sftp_ok \in IoOutcomes(host_key[t]), stat_ok \in IoOutcomes(host_key[t]) :
      /\ Channel(t, sftp_ok, sftp_ok)
      /\ IF ~sftp_ok
        THEN Log(t, <<>>) /\ Return(stage, t, TRUE)
        ELSE IF stat_ok /\ remote_file[host_key[t]]
        THEN Log(t, <<"stat">>) /\ Return(stage, t, TRUE)
        ELSE /\ Log(t, <<"stat!">>)
             /\ IF call[t] = "file_exists_remote"
                THEN Return(stage, t, FALSE)
                ELSE Continue(stage, t, "put")
    /\ UNCHANGED <<store_vars, cfg_vars, exec_ret, logged, tar_exists, saves, run_vars, stage_vars, started, ssh_vars,
                   remote_file, remote_dir, call_exists>>

\* variant: the answer of the existence check is not used, the upload follows
ExistsIOThenUpload(t) ==
    /\ pc[t] = "io" /\ op[t] = "exists"
    /\ \E sftp_ok \in IoOutcomes(host_key[t]), stat_ok \in IoOutcomes(host_key[t]) :
        /\ Channel(t, sftp_ok, sftp_ok)
        /\ Log(t, IF ~sftp_ok THEN <<>>
                  ELSE IF stat_ok /\ remote_file[host_key[t]] THEN <<"stat">> ELSE <<"stat!">>)
        /\ Continue(stage, t, "put")
    /\ UNCHANGED <<store_vars, cfg_vars, exec_ret, logged, tar_exists, saves, run_vars, stage_vars, started, ssh_vars,
                   remote_file, remote_dir, call_exists>>

\* file_exists_remote after _get_client: open_sftp, stat, close; then
\* transfer_file returns True (skipped) or goes on to the upload.
ExistsIO(t) ==
    /\ pc[t] = "io" /\ op[t] = "exists"
    /\ \E sftp_ok \in IoOutcomes(host_key[t]), stat_ok \in IoOutcomes(host_key[t]) :
      /\ Channel(t, sftp_ok, sftp_ok)
      /\ IF sftp_ok /\ stat_ok /\ remote_file[host_key[t]]
        THEN Log(t, <<"stat">>) /\ Emit(t, <<>>) /\ Return(stage, t, TRUE)
        ELSE /\ Log(t, IF sftp_ok THEN <<"stat!">> ELSE <<>>)
             /\ Emit(t, IF sftp_ok THEN <<>> ELSE CallerLog("exists"))
             /\ IF call[t] = "file_exists_remote"
                THEN Return(stage, t, FALSE)
                ELSE Continue(stage, t, "put")
    /\ UNCHANGED <<store_vars, cfg_vars, exec_ret, tar_exists, saves, run_vars, stage_vars, started, ssh_vars,
                   remote_file, remote_dir, call_exists>>

\* variant: no put when the remote path is already there
PutIOUnlessThere(t) ==
    /\ pc[t] = "io" /\ op[t] = "put"
    /\ \E sftp_ok \in IoOutcomes(host_key[t]), mkdir_ok \in MkdirOutcomes(host_key[t]),
          put_ok \in IoOutcomes(host_key[t]) :
        LET k == host_key[t]
            did_mkdir == sftp_ok /\ ~remote_dir[k]
            did_put == sftp_ok /\ (remote_dir[k] \/ mkdir_ok) /\ ~remote_file[k]
            ok == (did_put /\ put_ok) \/ (sftp_ok /\ remote_file[k])
        IN  /\ Channel(t, sftp_ok, ok)
            /\ remote_dir' = [remote_dir EXCEPT ![k] = @ \/ (did_mkdir /\ mkdir_ok)]
            /\ remote_file' = [remote_file EXCEPT ![k] = @ \/ ok]
            /\ Log(t, (IF sftp_ok THEN <<IF remote_dir[k] THEN "statdir" ELSE "statdir!">> ELSE <<>>)
                      \o (IF did_mkdir THEN <<IF mkdir_ok THEN "mkdir" ELSE "mkdir!">> ELSE <<>>)
                      \o (IF did_put THEN <<IF put_ok THEN "put" ELSE "put!">> ELSE <<>>))
            /\ Return(stage, t, ok)
    /\ UNCHANGED <<store_vars, cfg_vars, exec_ret, logged, tar_exists, saves, run_vars, stage_vars, started, ssh_vars, call_exists>>

\* variant: the file is put without a look at the parent directory
PutIODirUnchecked(t) ==
    /\ pc[t] = "io" /\ op[t] = "put"
    /\ \E sftp_ok \in IoOutcomes(host_key[t]), put_ok \in IoOutcomes(host_key[t]) :
        LET k == host_key[t]
            ok == sftp_ok /\ put_ok /\ remote_dir[k]
        IN  /\ Channel(t, sftp_ok, ok)
            /\ remote_file' = [remote_file EXCEPT ![k] = @ \/ ok]
            /\ Log(t, IF sftp_ok THEN <<IF ok THEN "put" ELSE "put!">> ELSE <<>>)
            /\ Emit(t, IF ok THEN <<>> ELSE CallerLog("put"))
            /\ Return(stage, t, ok)
    /\ UNCHANGED <<store_vars, cfg_vars, exec_ret, tar_exists, saves, run_vars, stage_vars, started, ssh_vars,
                   remote_dir, call_exists>>

\* transfer_file after _get_client: open_sftp, stat of the parent directory,
\* makedirs when it is missing, put, close.
PutIO(t) ==
    /\ pc[t] = "io" /\ op[t] = "put"
    /\ \E sftp_ok \in IoOutcomes(host_key[t]), mkdir_ok \in MkdirOutcomes(host_key[t]),
          put_ok \in IoOutcomes(host_key[t]) :
        LET k == host_key[t]
            did_mkdir == sftp_ok /\ ~remote_dir[k]
            did_put == sftp_ok /\ (remote_dir[k] \/ mkdir_ok)
            ok == did_put /\ put_ok
        IN  /\ Channel(t, sftp_ok, ok)
            /\ remote_dir' = [remote_dir EXCEPT ![k] = @ \/ (did_mkdir /\ mkdir_ok)]
            /\ remote_file' = [remote_file EXCEPT ![k] = @ \/ ok]
            /\ Log(t, (IF sftp_ok THEN <<IF remote_dir[k] THEN "statdir" ELSE "statdir!">> ELSE <<>>)
                      \o (IF did_mkdir THEN <<IF mkdir_ok THEN "mkdir" ELSE "mkdir!">> ELSE <<>>)
                      \o (IF did_put THEN <<IF put_ok THEN "put" ELSE "put!">> ELSE <<>>))
            /\ Emit(t, IF ok THEN <<>> ELSE CallerLog("put"))
            /\ Return(stage, t, ok)
    /\ UNCHANGED <<store_vars, cfg_vars, exec_ret, tar_exists, saves, run_vars, stage_vars, started, ssh_vars, call_exists>>

\* execute_remote after _get_client: exec_command, recv_exit_status, the two
\* reads and decodes; then, for a plugin's main command, the plugin's reading
\* of the exit code.
ExecIO(t) ==
    /\ pc[t] = "io" /\ op[t] = "exec"
    /\ \E ran \in IoOutcomes(host_key[t]), code \in ExitOutcomes(host_key[t]) :
        LET ret == IF ran
                   THEN ExecResult(code, remote_out[host_key[t]][1], remote_out[host_key[t]][2])
                   ELSE ExecRaised
        IN  /\ exec_ret' = [exec_ret EXCEPT ![t] = ret]
            /\ Emit(t, IF ran THEN <<>> ELSE CallerLog("exec"))
            /\ Log(t, IF ran THEN <<IF code = 0 THEN "exec" ELSE "exec!">> ELSE <<>>)
            /\ IF call[t] = "execute_remote"
               THEN ReturnTriple(stage, t)
               ELSE IF ret[1] = 0
               THEN IF WantsCleanup(EffectivePost(t)[1], EffectivePost(t)[2])
                    THEN Continue(stage, t, "cleanup")
                    ELSE Return(stage, t, TRUE)
               ELSE Return(stage, t, FALSE)
    /\ UNCHANGED <<store_vars, cfg_vars, tar_exists, saves, run_vars, stage_vars, started, ssh_vars,
                   remote_file, remote_dir, call_exists, sftp>>

\* variant: a cleanup that fails makes the action fail
CleanupIOResultCounts(t) ==
    /\ pc[t] = "io" /\ op[t] = "cleanup"
    /\ \E ran \in IoOutcomes(host_key[t]), rc_zero \in IoOutcomes(host_key[t]) :
        /\ remote_file' = [remote_file EXCEPT ![host_key[t]] = @ /\ ~(ran /\ rc_zero)]
        /\ Log(t, IF ran THEN <<IF rc_zero THEN "cleanup" ELSE "cleanup!">> ELSE <<>>)
        /\ Emit(t, IF ran THEN <<>> ELSE CallerLog("cleanup"))
        /\ Return(stage, t, ran /\ rc_zero)
    /\ UNCHANGED <<store_vars, cfg_vars, exec_ret, tar_exists, saves, run_vars, stage_vars, started, ssh_vars,
                   remote_dir, call_exists, sftp>>

\* The plugin's cleanup command (rm -f of the archive); its exit code is only logged.
CleanupIO(t) ==
    /\ pc[t] = "io" /\ op[t] = "cleanup"
    /\ \E ran \in IoOutcomes(host_key[t]), rc_zero \in IoOutcomes(host_key[t]) :
        /\ remote_file' = [remote_file EXCEPT ![host_key[t]] = @ /\ ~(ran /\ rc_zero)]
        /\ Log(t, IF ran THEN <<IF rc_zero THEN "cleanup" ELSE "cleanup!">> ELSE <<>>)
        /\ Emit(t, IF ran THEN <<>> ELSE CallerLog("cleanup"))
    /\ Return(stage, t, TRUE)
    /\ UNCHANGED <<store_vars, cfg_vars, exec_ret, tar_exists, saves, run_vars, stage_vars, started, ssh_vars,
                   remote_dir, call_exists, sftp>>

\* variant: the cache is cleared without closing the clients in it
TransportCloseClearOnly ==
    /\ clients_lock = <<>>
    /\ clients' = {}
    /\ UNCHANGED <<clients_lock, live, opened, closed, connect_failures>>

\* SSHTransport.close: under the lock, close every cached client, clear the cache.
TransportClose ==
    /\ clients_lock = <<>>
    /\ live' = [k \in Keys |-> IF k \in clients THEN live[k] - 1 ELSE live[k]]
    /\ closed' = [k \in Keys |-> IF k \in clients THEN closed[k] + 1 ELSE closed[k]]
    /\ clients' = {}
    /\ UNCHANGED <<clients_lock, opened, connect_failures>>

\* ------------------------------------------------------- fan-out stages
Bump(f, s, t) == [f EXCEPT ![s][t] = @ + 1]
SetOutcome(s, v) == outcome' = [outcome EXCEPT ![s] = v]
Enter(s) == stages_started' = Append(stages_started, s)

\* ThreadPoolExecutor(max_workers=n) raises ValueError unless n > 0
PoolRaises == max_concurrent_uploads < 1

\* with ThreadPoolExecutor(max_workers=self.max_concurrent_uploads): every
\* target is submitted
SubmitAll(s) ==
    /\ smode' = [smode EXCEPT ![s] = "pool"]
    /\ pool_size' = max_concurrent_uploads
    /\ pools_created' = pools_created + 1
    /\ pc' = [t \in Targets |-> "queued"]
    /\ op' = [t \in Targets |-> "none"]
    /\ UNCHANGED <<res, started>>

\* variant: the local archive is not looked for
TransferBeginUnchecked ==
    /\ run_pc = "transfer"
    /\ stage' = "transfer"
    /\ Enter("transfer")
    /\ all_success' = TRUE
    /\ IF FALSE
       THEN /\ SetOutcome("transfer", "false") /\ run_pc' = "transfer_done"
            /\ UNCHANGED <<smode, pool_size, pools_created, unit_vars, call_exists>>
       ELSE IF num_targets = 1
       THEN /\ smode' = [smode EXCEPT !["transfer"] = "inline"]
            /\ run_pc' = "in_stage"
            /\ started' = Bump(started, "transfer", 1)
            /\ EnterTransferFile(1)
            /\ UNCHANGED <<outcome, pool_size, pools_created>>
       ELSE IF PoolRaises
       THEN /\ SetOutcome("transfer", "raised") /\ run_pc' = "transfer_done"
            /\ UNCHANGED <<smode, pool_size, pools_created, unit_vars, call_exists>>
       ELSE /\ SubmitAll("transfer")
            /\ run_pc' = "in_stage"
            /\ UNCHANGED <<outcome, call_exists>>
    /\ UNCHANGED <<store_vars, cfg_vars, exec_ret, logged, tar_exists, saves, run_result, pull_idx, pull_ok, pulls, ssh_vars,
                   remote_file, remote_dir, remote_log, sftp>>

\* The head of _transfer_to_target: the local archive must exist; one target
\* is served inline, several are submitted to a new pool.
TransferBegin ==
    /\ run_pc = "transfer"
    /\ stage' = "transfer"
    /\ Enter("transfer")
    /\ all_success' = TRUE
    /\ IF ~tar_exists
       THEN /\ SetOutcome("transfer", "false") /\ run_pc' = "transfer_done"
            /\ UNCHANGED <<smode, pool_size, pools_created, unit_vars, call_exists>>
       ELSE IF num_targets = 1
       THEN /\ smode' = [smode EXCEPT !["transfer"] = "inline"]
            /\ run_pc' = "in_stage"
            /\ started' = Bump(started, "transfer", 1)
            /\ EnterTransferFile(1)
            /\ UNCHANGED <<outcome, pool_size, pools_created>>
       ELSE IF PoolRaises
       THEN /\ SetOutcome("transfer", "raised") /\ run_pc' = "transfer_done"
            /\ UNCHANGED <<smode, pool_size, pools_created, unit_vars, call_exists>>
       ELSE /\ SubmitAll("transfer")
            /\ run_pc' = "in_stage"
            /\ UNCHANGED <<outcome, call_exists>>
    /\ UNCHANGED <<store_vars, cfg_vars, exec_ret, logged, tar_exists, saves, run_result, pull_idx, pull_ok, pulls, ssh_vars,
                   remote_file, remote_dir, remote_log, sftp>>

\* config.post_instructions or some target.post_instructions is non-empty
HasPostInstructions ==
    \/ DOMAIN global_post # {}
    \/ \E t \in Targets : DOMAIN target_post[t] # {}

\* The head of _execute_post_instructions.
PostBegin ==
    /\ run_pc = "post"
    /\ stage' = "post"
    /\ Enter("post")
    /\ all_success' = TRUE
    /\ IF ~HasPostInstructions
       THEN /\ SetOutcome("post", "true") /\ run_pc' = "post_done"
            /\ UNCHANGED <<smode, pool_size, pools_created, unit_vars>>
       ELSE IF num_targets = 1
       THEN /\ smode' = [smode EXCEPT !["post"] = "inline"]
            /\ run_pc' = "in_stage"
            /\ started' = Bump(started, "post", 1)
            /\ EnterPostInstruction(1)
            /\ UNCHANGED <<outcome, pool_size, pools_created>>
       ELSE IF PoolRaises
       THEN /\ SetOutcome("post", "raised") /\ run_pc' = "post_done"
            /\ UNCHANGED <<smode, pool_size, pools_created, unit_vars>>
       ELSE /\ SubmitAll("post")
            /\ run_pc' = "in_stage"
            /\ UNCHANGED outcome
    /\ UNCHANGED <<store_vars, cfg_vars, exec_ret, logged, tar_exists, saves, run_result, pull_idx, pull_ok, pulls, ssh_vars, remote_vars>>

\* A pool thread takes the oldest submitted unit: transfer_worker or
\* post_instruction_worker up to its first remote call.
WorkerStart(t) ==
    /\ run_pc = "in_stage"
    /\ smode[stage] = "pool"
    /\ pc[t] = "queued"
    /\ \A u \in Queued : t <= u
    /\ Cardinality(Running) < pool_size
    /\ started' = Bump(started, stage, t)
    /\ IF stage = "transfer"
       THEN EnterTransferFile(t)
       ELSE EnterPostInstruction(t) /\ UNCHANGED call_exists
    /\ UNCHANGED <<store_vars, cfg_vars, exec_ret, logged, tar_exists, saves, run_vars, stage_vars, ssh_vars,
                   remote_file, remote_dir, remote_log, sftp>>

\* variant: the aggregate keeps only the result collected last
FoldResultLast(acc, r) == r = "true"

\* `if not success: all_success = False`
FoldResult(acc, r) == acc /\ r = "true"

\* One round of the as_completed loop: the result of a finished future is
\* folded into all_success.
Collect(t) ==
    /\ run_pc = "in_stage"
    /\ smode[stage] = "pool"
    /\ pc[t] = "finished"
    /\ pc' = [pc EXCEPT ![t] = "collected"]
    /\ all_success' = FoldResult(all_success, res[stage][t])
    /\ UNCHANGED <<store_vars, cfg_vars, exec_ret, logged, tar_exists, saves, run_vars, stage, smode, pool_size,
                   pools_created, op, res, started, ssh_vars, remote_vars>>

\* variant: the as_completed loop is left at the first failed result
StageCompleteFirstFailure ==
    \/ smode[stage] = "inline" /\ pc[1] = "finished"
    \/ smode[stage] = "pool" /\ \A t \in Targets : pc[t] = "collected"
    \/ smode[stage] = "pool" /\ ~all_success

\* The stage may return: the inline call has returned, or every future has
\* been collected (which also ends the `with ThreadPoolExecutor` block).
StageComplete ==
    \/ smode[stage] = "inline" /\ pc[1] = "finished"
    \/ smode[stage] = "pool" /\ \A t \in Targets : pc[t] = "collected"

StageReturn ==
    /\ run_pc = "in_stage"
    /\ StageComplete
    /\ SetOutcome(stage, IF smode[stage] = "inline" THEN res[stage][1] ELSE B2S(all_success))
    /\ run_pc' = IF stage = "transfer" THEN "transfer_done" ELSE "post_done"
    /\ UNCHANGED <<store_vars, cfg_vars, exec_ret, logged, tar_exists, saves, run_result, pull_idx, pull_ok, pulls, stages_started,
                   stage_vars, unit_vars, ssh_vars, remote_vars>>

\* --------------------------------------------------------- Orchestrator.run
\* a `return False` before the try block: run is over
ReturnEarly ==
    /\ run_result' = "false" /\ run_pc' = "returned"
\* a `return v` (or the except clause) inside the try block: finally runs next
ReturnFromTry(v) ==
    /\ run_result' = v /\ run_pc' = "finally"

\* variant: the stage's result is not looked at
AfterStageUnchecked(ok, nextpc) ==
    run_pc' = nextpc /\ UNCHANGED run_result

\* `if not self._<stage>(): return False`, else on to the next statement
AfterStage(ok, nextpc) ==
    IF ok THEN run_pc' = nextpc /\ UNCHANGED run_result ELSE ReturnFromTry("false")

\* variant: only the images are checked
ValidateImagesOnly ==
    /\ run_pc = "validate"
    /\ IF num_images = 0
       THEN ReturnEarly
       ELSE run_pc' = "init_runtime" /\ UNCHANGED run_result
    /\ UNCHANGED <<store_vars, cfg_vars, exec_ret, logged, tar_exists, saves, pull_idx, pull_ok, pulls, stages_started, outcome,
                   stage_vars, unit_vars, ssh_vars, remote_vars>>

\* config.validate()
Validate ==
    /\ run_pc = "validate"
    /\ IF num_images = 0 \/ num_targets = 0
       THEN ReturnEarly
       ELSE run_pc' = "init_runtime" /\ UNCHANGED run_result
    /\ UNCHANGED <<store_vars, cfg_vars, exec_ret, logged, tar_exists, saves, pull_idx, pull_ok, pulls, stages_started, outcome,
                   stage_vars, unit_vars, ssh_vars, remote_vars>>

\* _init_runtime(): the runtime type is supported and docker answers, or not
InitRuntime ==
    /\ run_pc = "init_runtime"
    /\ \E ok \in BOOLEAN :
        IF ok THEN run_pc' = "init_transport" /\ UNCHANGED run_result ELSE ReturnEarly
    /\ UNCHANGED <<store_vars, cfg_vars, exec_ret, logged, tar_exists, saves, pull_idx, pull_ok, pulls, stages_started, outcome,
                   stage_vars, unit_vars, ssh_vars, remote_vars>>

\* _init_transport(): the transport type is supported and SSHTransport is built, or not
InitTransport ==
    /\ run_pc = "init_transport"
    /\ \E ok \in BOOLEAN :
        IF ok THEN run_pc' = "pull" /\ UNCHANGED run_result ELSE ReturnEarly
    /\ UNCHANGED <<store_vars, cfg_vars, exec_ret, logged, tar_exists, saves, pull_idx, pull_ok, pulls, stages_started, outcome,
                   stage_vars, unit_vars, ssh_vars, remote_vars>>

\* variant: the loop is left at the first image whose pull failed
PullImageStopAtFailure ==
    /\ run_pc = "pull"
    /\ pull_idx < num_images
    /\ stages_started' = IF pull_idx = 0 THEN Append(stages_started, "pull") ELSE stages_started
    /\ \E ok \in BOOLEAN :
        /\ pull_idx' = pull_idx + 1
        /\ pull_ok' = (pull_ok /\ ok)
        /\ pulls' = Append(pulls, <<pull_idx + 1, ok>>)
        /\ IF pull_idx + 1 < num_images /\ ok
           THEN UNCHANGED <<run_pc, run_result, outcome>>
           ELSE /\ SetOutcome("pull", B2S(pull_ok /\ ok))
                /\ AfterStage(pull_ok /\ ok, "compress")
    /\ UNCHANGED <<store_vars, cfg_vars, exec_ret, logged, tar_exists, saves, stage_vars, unit_vars, ssh_vars, remote_vars>>

\* _pull_images(): one round of the loop; after the last image run reads the result
PullImage ==
    /\ run_pc = "pull"
    /\ pull_idx < num_images
    /\ stages_started' = IF pull_idx = 0 THEN Append(stages_started, "pull") ELSE stages_started
    /\ \E ok \in BOOLEAN :
        /\ pull_idx' = pull_idx + 1
        /\ pull_ok' = (pull_ok /\ ok)
        /\ pulls' = Append(pulls, <<pull_idx + 1, ok>>)
        /\ IF pull_idx + 1 < num_images
           THEN UNCHANGED <<run_pc, run_result, outcome>>
           ELSE /\ SetOutcome("pull", B2S(pull_ok /\ ok))
                /\ AfterStage(pull_ok /\ ok, "compress")
    /\ UNCHANGED <<store_vars, cfg_vars, exec_ret, logged, tar_exists, saves, stage_vars, unit_vars, ssh_vars, remote_vars>>

\* _compress_images(): remove a stale archive (os.remove may raise), save the
\* images, check that the file is there
CompressOutcomes ==
    {"true", "save_failed", "not_created"} \cup (IF tar_exists THEN {"remove_raised"} ELSE {})

CompressImages ==
    /\ run_pc = "compress"
    /\ Enter("compress")
    /\ \E result \in CompressOutcomes :
        /\ tar_exists' = (result \in {"true", "remove_raised"})
        /\ saves' = IF result = "remove_raised" THEN saves ELSE saves + 1
        /\ SetOutcome("compress", CASE result = "true" -> "true"
                                    [] result = "remove_raised" -> "raised"
                                    [] OTHER -> "false")
        /\ AfterStage(result = "true", "transfer")
    /\ UNCHANGED <<store_vars, cfg_vars, exec_ret, logged, pull_idx, pull_ok, pulls, stage_vars, unit_vars, ssh_vars, remote_vars>>

\* run after _transfer_to_target() returned or raised
RunAfterTransfer ==
    /\ run_pc = "transfer_done"
    /\ AfterStage(outcome["transfer"] = "true", "post")
    /\ UNCHANGED <<store_vars, cfg_vars, exec_ret, logged, tar_exists, saves, pull_idx, pull_ok, pulls, stages_started, outcome,
                   stage_vars, unit_vars, ssh_vars, remote_vars>>

\* variant: the result of the post-placement stage is not looked at
RunAfterPostUnchecked ==
    /\ run_pc = "post_done"
    /\ ReturnFromTry("true")
    /\ UNCHANGED <<store_vars, cfg_vars, exec_ret, logged, tar_exists, saves, pull_idx, pull_ok, pulls, stages_started, outcome,
                   stage_vars, unit_vars, ssh_vars, remote_vars>>

\* run after _execute_post_instructions() returned or raised
RunAfterPost ==
    /\ run_pc = "post_done"
    /\ ReturnFromTry(IF outcome["post"] = "true" THEN "true" ELSE "false")
    /\ UNCHANGED <<store_vars, cfg_vars, exec_ret, logged, tar_exists, saves, pull_idx, pull_ok, pulls, stages_started, outcome,
                   stage_vars, unit_vars, ssh_vars, remote_vars>>

\* finally: self.transport.close()
RunFinally ==
    /\ run_pc = "finally"
    /\ run_pc' = "returned"
    /\ TransportClose
    /\ UNCHANGED <<store_vars, cfg_vars, exec_ret, logged, tar_exists, saves, run_result, pull_idx, pull_ok, pulls, stages_started,
                   outcome, stage_vars, unit_vars, remote_vars>>

\* ------------------------------------------------------- stores at rest
\* A JSON value is a record with its kind; a cache entry that is an object has
\* "sha256" and "mtime" ("" and 0 stand for a member that is not there, which
\* .get() turns into None).
\* The archive's path, a path in another directory with the same file name,
\* and a path with another file name.
OutputPath == "/tmp/out.tar"
OtherPath == "/var/out.tar"
ThirdPath == "/tmp/img.tar"
CachePaths == {OutputPath, OtherPath, ThirdPath}
\* os.path.basename
Basename(path) ==
    CASE path \in {"/tmp/out.tar", "/var/out.tar"} -> "out.tar"
      [] path = "/tmp/img.tar" -> "img.tar"
      [] OTHER -> path
CacheEntryAt(file_path, digest, mtime) ==
    [kind |-> "object", file_path |-> file_path, sha256 |-> digest, mtime |-> mtime]
CacheEntry(digest, mtime) == CacheEntryAt(OutputPath, digest, mtime)
JsonString == [kind |-> "string", sha256 |-> "", mtime |-> 0]
JsonObject(entries) == [kind |-> "object", entries |-> entries]
JsonScalar(kind) == [kind |-> kind, entries |-> EmptyDict]

\* no cache in use: an empty store, no archive
IdleCache ==
    /\ metadata_file = [kind |-> "absent", entries |-> EmptyDict]
    /\ metadata = JsonObject(EmptyDict)
    /\ file_exists = FALSE /\ file_bytes = "x" /\ file_mtime = 1
    /\ cache_ops = <<>>

\* A resume file holds one JSON value; the object save_progress writes has
\* these members (0 stands for a member that is not there), and saved_at is
\* the st_mtime of the resume file.
ProgressDoc(kind, size, mtime, transferred, total, at) ==
    [kind |-> kind, file_size |-> size, local_mtime |-> mtime,
     transferred_bytes |-> transferred, total_bytes |-> total, saved_at |-> at]
NoDoc == ProgressDoc("absent", 0, 0, 0, 0, 0)
LocalSizes == {10, 20}

\* no ledger in use: an empty resume directory
IdleLedger ==
    /\ ledger = EmptyDict
    /\ local_exists = FALSE /\ local_size = 10 /\ local_mtime = 1
    /\ now = 0
    /\ ledger_ops = <<>>
IdleStores == IdleCache /\ IdleLedger

\* ------------------------------------------------------------------- Init
\* State after construction of Config, Orchestrator and SSHTransport: nothing
\* has run, the client cache is empty, the lock is free.
InitState ==
    /\ run_result = "none" /\ pull_idx = 0 /\ pull_ok = TRUE /\ pulls = <<>>
    /\ stages_started = <<>>
    /\ outcome = [s \in StageNames |-> "none"]
    /\ stage = "transfer"
    /\ smode = [s \in FanOutStages |-> "none"]
    /\ all_success = TRUE /\ pool_size = 0 /\ pools_created = 0
    /\ pc = [t \in Targets |-> "idle"]
    /\ op = [t \in Targets |-> "none"]
    /\ res = [s \in FanOutStages |-> [t \in Targets |-> "none"]]
    /\ started = [s \in FanOutStages |-> [t \in Targets |-> 0]]
    /\ clients = {} /\ clients_lock = <<>>
    /\ live = [k \in Keys |-> 0]
    /\ opened = [k \in Keys |-> 0]
    /\ closed = [k \in Keys |-> 0]
    /\ connect_failures = [k \in Keys |-> 0]
    /\ call_exists = [t \in Targets |-> FALSE]
    /\ remote_log = [t \in Targets |-> <<>>]
    /\ sftp = [t \in Targets |-> <<0, 0>>]
    /\ exec_ret = [t \in Targets |-> <<>>]
    /\ logged = [t \in Targets |-> <<>>]
    /\ saves = 0

\* The plain set-up: no cache flag, strict host verification, every host in
\* known_hosts, no key file and no password configured, no key file on disk,
\* and hosts that accept the keys of the agent.
PlainSetup ==
    /\ no_cache = FALSE /\ config_no_cache = FALSE
    /\ skip_host_verification = FALSE
    /\ known_hosts = Keys
    /\ transport_options = EmptyDict
    /\ ssh_options = [t \in Targets |-> EmptyDict]
    /\ key_files = {}
    /\ authorized = [k \in Keys |-> {Agent}]

\* `outrider deploy`: the command line clamps the requested concurrency and
\* runs the Orchestrator; the remote hosts are new (no archive, no directory)
\* and every remote operation may fail.
Init ==
    /\ num_images \in 0..MaxImages
    /\ num_targets \in 0..MaxTargets
    /\ host_key \in HostAssignments(num_targets)
    /\ host_state = [k \in Keys |-> "flaky"]
    /\ requested \in RequestedUploads
    /\ via_cli = TRUE
    /\ max_concurrent_uploads = ClampUploads(requested)
    /\ global_post \in GlobalPostConfigs
    /\ target_post \in [Targets -> TargetPostConfigs]
    /\ skip_if_exists = [t \in Targets |-> FALSE]
    /\ call = [t \in Targets |-> "pipeline"]
    /\ remote_out = [k \in Keys |-> <<<<>>, <<>>>>]
    /\ tar_exists \in BOOLEAN
    /\ remote_file = [k \in Keys |-> FALSE]
    /\ remote_dir = [k \in Keys |-> FALSE]
    /\ run_pc = "validate"
    /\ InitState
    /\ PlainSetup
    /\ IdleStores

\* ------------------------------------------------------------------- Next
Next ==
    \/ Validate
    \/ InitRuntime
    \/ InitTransport
    \/ PullImage
    \/ CompressImages
    \/ TransferBegin
    \/ RunAfterTransfer
    \/ PostBegin
    \/ RunAfterPost
    \/ StageReturn
    \/ RunFinally
    \/ \E t \in Targets : WorkerStart(t)
    \/ \E t \in Targets : GetClientAcquire(t)
    \/ \E t \in Targets : GetClientConnect(t)
    \/ \E t \in Targets : PutIO(t)
    \/ \E t \in Targets : ExecIO(t)
    \/ \E t \in Targets : CleanupIO(t)
    \/ \E t \in Targets : Collect(t)

Spec == Init /\ [][Next]_vars

\* --------------------------------------------- the transfer stage on its own
\* _transfer_to_target called on an Orchestrator that `deploy` constructed
\* (clamped limit; requests up to the upper end of the range) or that was
\* constructed directly with the requested limit, for one target and for one
\* target more than the upper end of the range.  The first host accepts the
\* session, the others refuse it.
PoolTargets == UploadsMax + 1

InitPool ==
    /\ num_images = 1
    /\ num_targets \in {1, PoolTargets}
    /\ host_key = [t \in Targets |-> t]
    /\ host_state = [k \in Keys |-> IF k = 1 THEN "up" ELSE "down"]
    /\ requested \in RequestedUploads
    /\ via_cli \in BOOLEAN
    /\ via_cli => requested <= UploadsMax
    /\ max_concurrent_uploads = IF via_cli THEN ClampUploads(requested) ELSE requested
    /\ global_post = EmptyDict
    /\ target_post = [t \in Targets |-> EmptyDict]
    /\ skip_if_exists = [t \in Targets |-> FALSE]
    /\ call = [t \in Targets |-> "pipeline"]
    /\ remote_out = [k \in Keys |-> <<<<>>, <<>>>>]
    /\ tar_exists = TRUE
    /\ remote_file = [k \in Keys |-> FALSE]
    /\ remote_dir = [k \in Keys |-> FALSE]
    /\ run_pc = "transfer"
    /\ InitState
    /\ PlainSetup
    /\ IdleStores

NextPool ==
    \/ TransferBegin
    \/ StageReturn
    \/ \E t \in Targets : WorkerStart(t)
    \/ \E t \in Targets : GetClientAcquire(t)
    \/ \E t \in Targets : GetClientConnect(t)
    \/ \E t \in Targets : PutIO(t)
    \/ \E t \in Targets : Collect(t)

SpecPool == InitPool /\ [][NextPool]_vars

\* ------------------------------------- the post-instruction stage on its own
\* _execute_post_instructions called on an Orchestrator whose transport is
\* initialised, for configurations that name a plugin globally, per target, in
\* both places or nowhere, that name no known plugin, and whose options are
\* well typed, badly typed or incomplete.  The hosts accept the session.
PostGlobalConfigs ==
    {EmptyDict,
     [plugin |-> "docker", options |-> [a |-> "1", b |-> "2"]],
     [plugin |-> "nosuch"],
     [options |-> [use_sudo |-> "'yes'"]]}
PostTargetConfigs ==
    {EmptyDict,
     [options |-> [b |-> "3", c |-> "4"]],
     [plugin |-> "generic_ssh", options |-> [command |-> CmdOk]],
     [plugin |-> "generic_ssh"],
     [plugin |-> "k3s_airgap", options |-> [k3s_path |-> "5"]],
     [plugin |-> "docker", options |-> [cleanup_tar |-> "'no'"]],
     [plugin |-> "nosuch"]}

InitPost ==
    /\ num_images = 1
    /\ num_targets \in 1..MaxPostTargets
    /\ host_key = [t \in Targets |-> t]
    /\ host_state = [k \in Keys |-> "up"]
    /\ requested = 2 /\ via_cli = FALSE /\ max_concurrent_uploads = 2
    /\ global_post \in PostGlobalConfigs
    /\ target_post \in [Targets -> PostTargetConfigs]
    /\ skip_if_exists = [t \in Targets |-> FALSE]
    /\ call = [t \in Targets |-> "pipeline"]
    /\ remote_out = [k \in Keys |-> <<<<>>, <<>>>>]
    /\ tar_exists = TRUE
    /\ remote_file = [k \in Keys |-> TRUE]
    /\ remote_dir = [k \in Keys |-> TRUE]
    /\ run_pc = "post"
    /\ InitState
    /\ PlainSetup
    /\ IdleStores

NextPost ==
    \/ PostBegin
    \/ StageReturn
    \/ \E t \in Targets : WorkerStart(t)
    \/ \E t \in Targets : GetClientAcquire(t)
    \/ \E t \in Targets : GetClientConnect(t)
    \/ \E t \in Targets : ExecIO(t)
    \/ \E t \in Targets : CleanupIO(t)
    \/ \E t \in Targets : Collect(t)

SpecPost == InitPost /\ [][NextPost]_vars

\* --------------------------- the plugins against hosts of every kind
\* _execute_post_instructions called on an Orchestrator whose transport is
\* initialised and holds no session, with docker as the global plugin and
\* targets that take it as it is (cleanup_tar defaults to True), switch the
\* cleanup off, or name k3s_airgap or generic_ssh; every host may accept or
\* refuse the session and run or fail a command.
PluginTargetConfigs ==
    {EmptyDict,
     [options |-> [cleanup_tar |-> PyFalse]],
     [plugin |-> "k3s_airgap"],
     [plugin |-> "generic_ssh", options |-> [command |-> CmdOk]]}

InitPlugins ==
    /\ num_images = 1
    /\ num_targets \in 1..MaxPostTargets
    /\ host_key = [t \in Targets |-> t]
    /\ host_state \in [Keys -> HostStates]
    /\ requested = 2 /\ via_cli = FALSE /\ max_concurrent_uploads = 2
    /\ global_post = [plugin |-> "docker"]
    /\ target_post \in [Targets -> PluginTargetConfigs]
    /\ skip_if_exists = [t \in Targets |-> FALSE]
    /\ call = [t \in Targets |-> "pipeline"]
    /\ remote_out = [k \in Keys |-> <<<<>>, <<>>>>]
    /\ tar_exists = TRUE
    /\ remote_file = [k \in Keys |-> TRUE]
    /\ remote_dir = [k \in Keys |-> TRUE]
    /\ run_pc = "post"
    /\ InitState
    /\ PlainSetup
    /\ IdleStores

SpecPlugins == InitPlugins /\ [][NextPost]_vars

\* ----------------------------------- the transfer stage, archive there or not
\* _transfer_to_target called on an Orchestrator whose transport is
\* initialised, with the local archive on disk or missing, for hosts of
\* every kind whose parent directory is there or not.
InitTransferStage ==
    /\ num_images = 1
    /\ num_targets \in 1..MaxTargets
    /\ host_key = [t \in Targets |-> t]
    /\ host_state \in [Keys -> HostStates]
    /\ requested = 2 /\ via_cli = FALSE /\ max_concurrent_uploads = 2
    /\ global_post = EmptyDict
    /\ target_post = [t \in Targets |-> EmptyDict]
    /\ skip_if_exists = [t \in Targets |-> SkipIfExistsDefault]
    /\ call = [t \in Targets |-> "pipeline"]
    /\ remote_out = [k \in Keys |-> <<<<>>, <<>>>>]
    /\ tar_exists \in BOOLEAN
    /\ remote_file = [k \in Keys |-> FALSE]
    /\ remote_dir \in [Keys -> BOOLEAN]
    /\ run_pc = "transfer"
    /\ InitState
    /\ PlainSetup
    /\ IdleStores

SpecTransferStage == InitTransferStage /\ [][NextPool]_vars

\* ------------------------------------------------- the transport on its own
\* Threads call transfer_file on one SSHTransport, with or without
\* skip_if_exists, against hosts of every kind; a remote archive that is there
\* lies in a directory that is there.  close() is called after the calls returned.
InitTransportCalls ==
    /\ num_images = 1
    /\ num_targets \in 1..MaxCallers
    /\ host_key \in HostAssignments(num_targets)
    /\ host_state \in [Keys -> HostStates]
    /\ requested = 2 /\ via_cli = FALSE /\ max_concurrent_uploads = 2
    /\ global_post = EmptyDict
    /\ target_post = [t \in Targets |-> EmptyDict]
    /\ skip_if_exists \in [Targets -> BOOLEAN]
    /\ call = [t \in Targets |-> "transfer_file"]
    /\ remote_out = [k \in Keys |-> <<<<>>, <<>>>>]
    /\ tar_exists = TRUE
    /\ remote_file \in [Keys -> BOOLEAN]
    /\ remote_dir \in [Keys -> BOOLEAN]
    /\ \A k \in Keys : remote_file[k] => remote_dir[k]
    /\ run_pc = "transport"
    /\ InitState
    /\ PlainSetup
    /\ IdleStores

\* a thread enters transfer_file for target t
CallTransferFile(t) ==
    /\ run_pc = "transport"
    /\ pc[t] = "idle"
    /\ started' = Bump(started, "transfer", t)
    /\ EnterTransferFile(t)
    /\ UNCHANGED <<store_vars, cfg_vars, exec_ret, logged, tar_exists, saves, run_vars, stage_vars, ssh_vars,
                   remote_file, remote_dir, remote_log, sftp>>

\* close() once every call has returned
CallClose ==
    /\ run_pc = "transport"
    /\ \A t \in Targets : pc[t] = "finished"
    /\ run_pc' = "closed"
    /\ TransportClose
    /\ UNCHANGED <<store_vars, cfg_vars, exec_ret, logged, tar_exists, saves, run_result, pull_idx, pull_ok, pulls, stages_started,
                   outcome, stage_vars, unit_vars, remote_vars>>

NextTransport ==
    \/ CallClose
    \/ \E t \in Targets : CallTransferFile(t)
    \/ \E t \in Targets : GetClientAcquire(t)
    \/ \E t \in Targets : GetClientConnect(t)
    \/ \E t \in Targets : ExistsIO(t)
    \/ \E t \in Targets : PutIO(t)

SpecTransport == InitTransportCalls /\ [][NextTransport]_vars

\* ------------------------------------- the existence check and the command
\* Threads call file_exists_remote or execute_remote on one SSHTransport,
\* against hosts of every kind.  The value a call returns is res["transfer"][t]
\* for file_exists_remote and exec_ret[t] for execute_remote.
OutputPairs == {<<o, <<>>>> : o \in RemoteOutputs} \cup {<<<<>>, <<255>>>>}

InitCalls ==
    /\ num_images = 1
    /\ num_targets \in 1..MaxProbes
    /\ host_key \in HostAssignments(num_targets)
    /\ host_state \in [Keys -> HostStates]
    /\ requested = 2 /\ via_cli = FALSE /\ max_concurrent_uploads = 2
    /\ global_post = EmptyDict
    /\ target_post = [t \in Targets |-> EmptyDict]
    /\ skip_if_exists = [t \in Targets |-> FALSE]
    /\ call \in [Targets -> {"file_exists_remote", "execute_remote"}]
    /\ \E p \in OutputPairs : remote_out = [k \in Keys |-> p]
    /\ tar_exists = TRUE
    /\ remote_file \in [Keys -> BOOLEAN]
    /\ remote_dir = remote_file
    /\ run_pc = "calls"
    /\ InitState
    /\ PlainSetup
    /\ IdleStores

\* a thread enters file_exists_remote for target t
CallFileExistsRemote(t) ==
    /\ run_pc = "calls"
    /\ pc[t] = "idle" /\ call[t] = "file_exists_remote"
    /\ started' = Bump(started, "transfer", t)
    /\ Continue("transfer", t, "exists")
    /\ call_exists' = [call_exists EXCEPT ![t] = remote_file[host_key[t]]]
    /\ UNCHANGED <<store_vars, cfg_vars, exec_ret, logged, tar_exists, saves, run_vars, stage_vars, ssh_vars,
                   remote_file, remote_dir, remote_log, sftp>>

\* a thread enters execute_remote for target t
CallExecuteRemote(t) ==
    /\ run_pc = "calls"
    /\ pc[t] = "idle" /\ call[t] = "execute_remote"
    /\ started' = Bump(started, "transfer", t)
    /\ Continue("transfer", t, "exec")
    /\ UNCHANGED <<store_vars, cfg_vars, exec_ret, logged, tar_exists, saves, run_vars, stage_vars, ssh_vars,
                   remote_vars>>

NextCalls ==
    \/ \E t \in Targets : CallFileExistsRemote(t)
    \/ \E t \in Targets : CallExecuteRemote(t)
    \/ \E t \in Targets : GetClientAcquire(t)
    \/ \E t \in Targets : GetClientConnect(t)
    \/ \E t \in Targets : ExistsIO(t)
    \/ \E t \in Targets : ExecIO(t)

SpecCalls == InitCalls /\ [][NextCalls]_vars

\* ------------------------------------------------------------ CacheManager
Contents == {"x", "y"}
\* hashlib.sha256 of the file's bytes, as hexdigest: one digest per content
_compute_sha256(bytes) == "sha256:" \o bytes

ImageLists == {<<"a">>, <<"a", "b">>, <<"b", "a">>}
\* sorted(images): the names with the number of times each occurs, which is
\* what the sorted list keeps of the list
Sorted(images) ==
    [n \in Range(images) |-> Cardinality({i \in DOMAIN images : images[i] = n})]
\* variant: the key is made of the whole output path
get_cache_keyFullPath(images, output_path) == <<Sorted(images), output_path>>
\* sha256 of the JSON of sorted(images) and the basename: one key per pair
get_cache_key(images, output_path) == <<Sorted(images), Basename(output_path)>>

\* The file at a path: the archive as the variables have it; the files at the
\* other paths are there and are not written during the calls.
FileAt(file_path) ==
    IF file_path = OutputPath
    THEN [exists |-> file_exists, bytes |-> file_bytes, mtime |-> file_mtime]
    ELSE [exists |-> TRUE, bytes |-> "y", mtime |-> 2]

\* what metadata.json may hold when the CacheManager is constructed
CacheDocs ==
    LET k == get_cache_key(<<"a">>, OutputPath)
    IN  { [kind |-> "absent", entries |-> EmptyDict],
          [kind |-> "unreadable", entries |-> EmptyDict],
          JsonScalar("number"), JsonScalar("null"), JsonScalar("array"),
          JsonObject(EmptyDict),
          JsonObject(SetItem(EmptyDict, k, CacheEntry(_compute_sha256("x"), 1))),
          JsonObject(SetItem(EmptyDict, k, CacheEntry(_compute_sha256("y"), 1))),
          JsonObject(SetItem(EmptyDict, k, CacheEntry("", 1))),
          JsonObject(SetItem(EmptyDict, k, JsonString)) }

\* _load_metadata: json.load of the file if it is there, {} when that raises
LoadMetadata(doc) ==
    IF doc.kind \in {"absent", "unreadable"} THEN JsonObject(EmptyDict) ELSE doc

\* The body of is_valid: "true", "false", or the exception that leaves it.
IsValidResult(file_path, images) ==
    LET key == get_cache_key(images, file_path)
        file == FileAt(file_path)
    IN  IF ~file.exists THEN "false"
        ELSE IF metadata.kind \in {"number", "null"} THEN "TypeError"
        ELSE IF metadata.kind # "object" \/ ~Has(metadata.entries, key) THEN "false"
        ELSE LET cached_info == Get(metadata.entries, key)
             IN  IF cached_info.kind # "object" THEN "AttributeError"
                 ELSE IF cached_info.sha256 = "" THEN "false"
                 ELSE IF file.mtime # cached_info.mtime THEN "false"
                 ELSE B2S(_compute_sha256(file.bytes) = cached_info.sha256)

CacheOpAt(name, file_path, images, ret) ==
    [op |-> name, file_path |-> file_path, images |-> images, ret |-> ret]
CacheOp(name, images, ret) == CacheOpAt(name, OutputPath, images, ret)
Record(event) == cache_ops' = Append(cache_ops, event)
CanCall == run_pc = "cache" /\ Len(cache_ops) < MaxCacheOps

\* cache.is_valid(file_path, images)
CacheIsValid(file_path, images) ==
    /\ CanCall
    /\ Record(CacheOpAt("is_valid", file_path, images, IsValidResult(file_path, images)))
    /\ UNCHANGED <<pipeline_vars, ledger_vars, metadata_file, metadata, file_exists, file_bytes, file_mtime>>

\* cache.update(file_path, images): the entry is stored under the key and the
\* store rewritten; any exception (no file, a store that is no object) is
\* logged and nothing changes
CacheUpdate(file_path, images) ==
    /\ CanCall
    /\ LET file == FileAt(file_path)
           ok == file.exists /\ metadata.kind = "object"
           entry == CacheEntryAt(file_path, _compute_sha256(file.bytes), file.mtime)
       IN  /\ metadata' = IF ok
                          THEN JsonObject(SetItem(metadata.entries,
                                                  get_cache_key(images, file_path), entry))
                          ELSE metadata
           /\ metadata_file' = IF ok THEN metadata' ELSE metadata_file
           /\ Record(CacheOpAt("update", file_path, images, B2S(ok)))
    /\ UNCHANGED <<pipeline_vars, ledger_vars, file_exists, file_bytes, file_mtime>>

\* the archive is written again: new bytes, at the same or a later mtime
WriteFile(bytes) ==
    /\ CanCall
    /\ bytes # file_bytes \/ ~file_exists
    /\ file_exists' = TRUE
    /\ file_bytes' = bytes
    /\ file_mtime' \in {m \in file_mtime..MaxMtime : m <= file_mtime + 1}
    /\ Record(CacheOp("write", <<>>, IF file_exists THEN "changed" ELSE "created"))
    /\ UNCHANGED <<pipeline_vars, ledger_vars, metadata_file, metadata>>

\* the archive is touched: same bytes, later mtime
TouchFile ==
    /\ CanCall
    /\ file_exists /\ file_mtime < MaxMtime
    /\ file_mtime' = file_mtime + 1
    /\ Record(CacheOp("touch", <<>>, "none"))
    /\ UNCHANGED <<pipeline_vars, ledger_vars, metadata_file, metadata, file_exists, file_bytes>>

\* the archive is removed
RemoveFile ==
    /\ CanCall
    /\ file_exists
    /\ file_exists' = FALSE
    /\ Record(CacheOp("remove", <<>>, "none"))
    /\ UNCHANGED <<pipeline_vars, ledger_vars, metadata_file, metadata, file_bytes, file_mtime>>

\* no pipeline: the configuration is empty and nothing runs
IdlePipeline ==
    /\ num_images = 0 /\ num_targets = 0
    /\ host_key = <<>> /\ host_state = <<>>
    /\ requested = 2 /\ via_cli = FALSE /\ max_concurrent_uploads = 2
    /\ global_post = EmptyDict /\ target_post = <<>>
    /\ skip_if_exists = <<>> /\ call = <<>> /\ remote_out = <<>>
    /\ tar_exists = FALSE
    /\ remote_file = <<>> /\ remote_dir = <<>>
    /\ InitState
    /\ PlainSetup

\* CacheManager() constructed over any document; the archive is there or not
InitCache ==
    /\ IdlePipeline
    /\ IdleLedger
    /\ run_pc = "cache"
    /\ metadata_file \in CacheDocs
    /\ metadata = LoadMetadata(metadata_file)
    /\ file_exists \in BOOLEAN /\ file_bytes = "x" /\ file_mtime = 1
    /\ cache_ops = <<>>

NextCache ==
    \/ \E images \in ImageLists : CacheIsValid(OutputPath, images)
    \/ \E images \in ImageLists : CacheUpdate(OutputPath, images)
    \/ \E bytes \in Contents : WriteFile(bytes)
    \/ TouchFile
    \/ RemoveFile

SpecCache == InitCache /\ [][NextCache]_vars

\* ------------------------------------------ the cache under several paths
\* update and is_valid called for the lists of one and of two images in either
\* order, under paths that share a file name or not, on a store that is empty
\* or holds an entry.
KeyDocs ==
    { [kind |-> "absent", entries |-> EmptyDict],
      JsonObject(SetItem(EmptyDict, get_cache_key(<<"a">>, OutputPath),
                         CacheEntry(_compute_sha256("x"), 1))) }

InitCacheKey ==
    /\ IdlePipeline
    /\ IdleLedger
    /\ run_pc = "cache"
    /\ metadata_file \in KeyDocs
    /\ metadata = LoadMetadata(metadata_file)
    /\ file_exists = TRUE /\ file_bytes = "x" /\ file_mtime = 1
    /\ cache_ops = <<>>

NextCacheKey ==
    \/ \E file_path \in CachePaths, images \in ImageLists : CacheIsValid(file_path, images)
    \/ \E file_path \in CachePaths, images \in ImageLists : CacheUpdate(file_path, images)

SpecCacheKey == InitCacheKey /\ [][NextCacheKey]_vars

\* ----------------------------------------------------------- ResumeManager
Day == 24 * 3600
\* `7 * 24 * 3600`
MaxAgeSeconds == 7 * Day
Clock == {0, 4 * Day, 8 * Day}

Triples == {<<OutputPath, "h1", "/r/out.tar">>, <<OutputPath, "h2", "/r/out.tar">>}
\* sha256 of "basename:host:remote_path": one key per such string
get_resume_key(triple) == <<Basename(triple[1]), triple[2], triple[3]>>

\* what a resume file may hold when the ResumeManager is constructed: an entry
\* of a complete transfer of the file as it is, a file that cannot be read or
\* parsed, a JSON array, an object without the members
LedgerDocs ==
    { ProgressDoc("object", 10, 1, 10, 10, 0),
      ProgressDoc("unreadable", 0, 0, 0, 0, 0),
      ProgressDoc("array", 0, 0, 0, 0, 0),
      ProgressDoc("object", 0, 0, 0, 0, 0) }

\* resume_file.unlink()
Unlink(d, k) == [x \in (DOMAIN d) \ {k} |-> d[x]]

\* The try block of get_progress over the document of an existing resume
\* file: "raised" (caught, None), "stale" (cleared, None) or "fresh" (returned).
\* variant: an entry of a complete transfer is not compared with the file
ProgressCheckUnlessComplete(doc) ==
    IF doc.kind # "object" \/ ~local_exists THEN "raised"
    ELSE IF doc.total_bytes > 0 /\ doc.transferred_bytes = doc.total_bytes THEN "fresh"
    ELSE IF doc.file_size # local_size THEN "stale"
    ELSE IF doc.local_mtime # local_mtime THEN "stale"
    ELSE "fresh"
ProgressCheck(doc) ==
    IF doc.kind # "object" \/ ~local_exists THEN "raised"
    ELSE IF doc.file_size # local_size THEN "stale"
    ELSE IF doc.local_mtime # local_mtime THEN "stale"
    ELSE "fresh"

LedgerOp(name, triple, ret, had) == [op |-> name, triple |-> triple, ret |-> ret, had |-> had]
RecordLedger(event) == ledger_ops' = Append(ledger_ops, event)
CanCallLedger == run_pc = "ledger" /\ Len(ledger_ops) < MaxLedgerOps

\* resume.get_progress(local_path, remote_host, remote_path)
GetProgress(triple) ==
    /\ CanCallLedger
    /\ LET key == get_resume_key(triple)
           had == IF Has(ledger, key) THEN ledger[key] ELSE NoDoc
           check == IF Has(ledger, key) THEN ProgressCheck(had) ELSE "missing"
       IN  /\ ledger' = IF check = "stale" THEN Unlink(ledger, key) ELSE ledger
           /\ RecordLedger(LedgerOp("get_progress", triple,
                                    IF check = "fresh" THEN "entry" ELSE "none", had))
    /\ UNCHANGED <<pipeline_vars, cache_vars, local_exists, local_size, local_mtime, now>>

\* resume.save_progress(local_path, remote_host, remote_path, transferred, total);
\* without the local file getsize raises and nothing is written
SaveProgress(triple, complete) ==
    /\ CanCallLedger
    /\ LET key == get_resume_key(triple)
           doc == ProgressDoc("object", local_size, local_mtime,
                              IF complete THEN local_size ELSE 5, local_size, now)
       IN  /\ ledger' = IF local_exists THEN SetItem(ledger, key, doc) ELSE ledger
           /\ RecordLedger(LedgerOp("save_progress", triple, B2S(local_exists), doc))
    /\ UNCHANGED <<pipeline_vars, cache_vars, local_exists, local_size, local_mtime, now>>

\* the loop of cleanup as written: files older than 7 days are unlinked
Purge(d) == [k \in {x \in DOMAIN d : now - d[x].saved_at <= MaxAgeSeconds} |-> d[k]]

\* resume.cleanup(): the first resume file makes `os.time.time()` raise
\* AttributeError (the os module has no attribute time); the handler logs it
\* and the loop is left, so no file is removed
Cleanup ==
    /\ CanCallLedger
    /\ ledger' = IF DOMAIN ledger = {} THEN Purge(ledger) ELSE ledger
    /\ RecordLedger(LedgerOp("cleanup", <<>>,
                             IF DOMAIN ledger = {} THEN "done" ELSE "AttributeError", NoDoc))
    /\ UNCHANGED <<pipeline_vars, cache_vars, local_exists, local_size, local_mtime, now>>

\* the local file is written again or touched: another size, a later mtime, or both
ChangeLocal(size, mtime) ==
    /\ CanCallLedger
    /\ local_exists
    /\ mtime >= local_mtime /\ <<size, mtime>> # <<local_size, local_mtime>>
    /\ local_size' = size /\ local_mtime' = mtime
    /\ RecordLedger(LedgerOp("change", <<>>, "none", NoDoc))
    /\ UNCHANGED <<pipeline_vars, cache_vars, ledger, local_exists, now>>

\* the local file is removed
RemoveLocal ==
    /\ CanCallLedger
    /\ local_exists
    /\ local_exists' = FALSE
    /\ RecordLedger(LedgerOp("remove", <<>>, "none", NoDoc))
    /\ UNCHANGED <<pipeline_vars, cache_vars, ledger, local_size, local_mtime, now>>

\* time passes
Tick ==
    /\ run_pc = "ledger"
    /\ \E c \in Clock : c = now + 4 * Day /\ now' = c
    /\ UNCHANGED <<pipeline_vars, cache_vars, ledger, local_exists, local_size, local_mtime,
                   ledger_ops>>

\* ResumeManager() constructed over a resume directory that is empty or holds
\* one file written at time 0
InitLedger ==
    /\ IdlePipeline
    /\ IdleCache
    /\ run_pc = "ledger"
    /\ \/ ledger = EmptyDict
       \/ \E doc \in LedgerDocs, triple \in Triples :
             ledger = SetItem(EmptyDict, get_resume_key(triple), doc)
    /\ local_exists = TRUE /\ local_size = 10 /\ local_mtime = 1
    /\ now = 0
    /\ ledger_ops = <<>>

NextLedger ==
    \/ \E triple \in Triples : GetProgress(triple)
    \/ \E triple \in Triples, complete \in BOOLEAN : SaveProgress(triple, complete)
    \/ Cleanup
    \/ \E size \in LocalSizes, mtime \in 1..MaxMtime : ChangeLocal(size, mtime)
    \/ RemoveLocal
    \/ Tick

SpecLedger == InitLedger /\ [][NextLedger]_vars

\* ------------------------------------------------------- one SSH session
\* execute_remote called once on a new SSHTransport for one target whose host
\* is reachable.  A key file and a password may be configured globally and
\* for the target; each key file, the default key included, is on disk or
\* not; the host accepts one credential; its key is in the user's known_hosts
\* or not; host verification is strict or skipped.
GlobalPassword == "global password"
TargetPassword == "target password"
TransportOptions ==
    {EmptyDict, [key_file |-> GlobalKey], [password |-> GlobalPassword],
     [key_file |-> GlobalKey, password |-> GlobalPassword]}
SshOptions ==
    {EmptyDict, [key_file |-> TargetKey], [password |-> TargetPassword],
     [key_file |-> TargetKey, password |-> TargetPassword]}
Credentials == {GlobalKey, TargetKey, GlobalPassword, TargetPassword, Agent}

InitSession ==
    /\ num_images = 1
    /\ num_targets = 1
    /\ host_key = [t \in Targets |-> t]
    /\ host_state = [k \in Keys |-> "up"]
    /\ requested = 2 /\ via_cli = FALSE /\ max_concurrent_uploads = 2
    /\ global_post = EmptyDict
    /\ target_post = [t \in Targets |-> EmptyDict]
    /\ skip_if_exists = [t \in Targets |-> FALSE]
    /\ call = [t \in Targets |-> "execute_remote"]
    /\ remote_out = [k \in Keys |-> <<<<>>, <<>>>>]
    /\ no_cache = FALSE /\ config_no_cache = FALSE
    /\ skip_host_verification \in BOOLEAN
    /\ known_hosts \in SUBSET Keys
    /\ transport_options \in TransportOptions
    /\ ssh_options \in [Targets -> SshOptions]
    /\ key_files \in SUBSET {GlobalKey, TargetKey, DefaultKey}
    /\ \E c \in Credentials : authorized = [k \in Keys |-> {c}]
    /\ tar_exists = TRUE
    /\ remote_file = [k \in Keys |-> TRUE]
    /\ remote_dir = [k \in Keys |-> TRUE]
    /\ run_pc = "calls"
    /\ InitState
    /\ IdleStores

NextSession ==
    \/ \E t \in Targets : CallExecuteRemote(t)
    \/ \E t \in Targets : GetClientAcquire(t)
    \/ \E t \in Targets : GetClientConnect(t)
    \/ \E t \in Targets : ExecIO(t)

SpecSession == InitSession /\ [][NextSession]_vars

\* ------------------------------------------- a deployment to reachable hosts
\* `outrider deploy` for two images and one or two targets whose hosts accept
\* the session and carry out every operation.  The archive of an earlier run
\* is on disk with a cache entry that matches it, or there is neither; the
\* no-cache flag is given on the command line, in the configuration, in both
\* or in neither; the global post-instruction names docker, an unknown plugin
\* or nothing.  transfer_file is called without skip_if_exists, which is False
\* by default.
DeployImages == <<"a", "b">>
CachedArchive ==
    JsonObject(SetItem(EmptyDict, get_cache_key(DeployImages, OutputPath),
                       CacheEntry(_compute_sha256("x"), 1)))
DeployPostConfigs == {EmptyDict, [plugin |-> "docker"], [plugin |-> "nosuch"]}

InitDeploy ==
    /\ num_images = Len(DeployImages)
    /\ num_targets \in {1, 2}
    /\ host_key = [t \in Targets |-> t]
    /\ host_state = [k \in Keys |-> "up"]
    /\ requested = 2 /\ via_cli = TRUE
    /\ max_concurrent_uploads = ClampUploads(requested)
    /\ global_post \in DeployPostConfigs
    /\ target_post = [t \in Targets |-> EmptyDict]
    /\ skip_if_exists = [t \in Targets |-> SkipIfExistsDefault]
    /\ call = [t \in Targets |-> "pipeline"]
    /\ remote_out = [k \in Keys |-> <<<<>>, <<>>>>]
    /\ no_cache \in BOOLEAN /\ config_no_cache \in BOOLEAN
    /\ skip_host_verification = FALSE
    /\ known_hosts = Keys
    /\ transport_options = EmptyDict
    /\ ssh_options = [t \in Targets |-> EmptyDict]
    /\ key_files = {}
    /\ authorized = [k \in Keys |-> {Agent}]
    /\ \E cached \in BOOLEAN :
          /\ tar_exists = cached
          /\ file_exists = cached /\ file_bytes = "x" /\ file_mtime = 1
          /\ metadata_file = IF cached THEN CachedArchive
                              ELSE [kind |-> "absent", entries |-> EmptyDict]
    /\ metadata = LoadMetadata(metadata_file)
    /\ cache_ops = <<>>
    /\ IdleLedger
    /\ \E there \in BOOLEAN :
          /\ remote_file = [k \in Keys |-> there]
          /\ remote_dir = [k \in Keys |-> there]
    /\ run_pc = "validate"
    /\ InitState

SpecDeploy == InitDeploy /\ [][Next]_vars

\* ---------------------------------------------------------------- claims
Returned == run_pc = "returned"
Issued(t) == Range(remote_log[t])
IsPrefix(p, q) == Len(p) <= Len(q) /\ SubSeq(q, 1, Len(p)) = p

\* C1: the stages of run start in the order pull, package, transfer,
\* post-placement; a stage starts only after every earlier stage returned
\* success; when pull or packaging fails, run returns false and no transfer and
\* no post-placement action is performed on any target.
C1_StagesInOrder ==
    /\ IsPrefix(stages_started, StageOrder)
    /\ \A i \in 2..Len(stages_started) : outcome[StageOrder[i - 1]] = "true"
    /\ (outcome["pull"] \in {"false", "raised"} \/ outcome["compress"] \in {"false", "raised"})
          => /\ run_result = "false"
             /\ \A t \in Targets : /\ started["transfer"][t] = 0
                                   /\ started["post"][t] = 0
                                   /\ remote_log[t] = <<>>
             /\ \A k \in Keys : opened[k] = 0 /\ connect_failures[k] = 0

\* run has returned after the packaging stage failed
C1_Witness ==
    /\ Returned
    /\ stages_started = <<"pull", "compress">>
    /\ outcome["pull"] = "true"
    /\ outcome["compress"] = "false"
    /\ run_result = "false"

\* C2: in a fan-out stage with more than one target every target is attempted
\* exactly once, also after an earlier target failed or its worker raised, and
\* the stage result is true exactly when every per-target result is true.
C2_FanOutAggregate ==
    \A s \in FanOutStages :
        /\ \A t \in Targets : started[s][t] <= 1
        /\ (smode[s] = "pool" /\ outcome[s] # "none") =>
              /\ num_targets > 1
              /\ \A t \in Targets : started[s][t] = 1 /\ res[s][t] \in {"true", "false"}
              /\ outcome[s] \in {"true", "false"}
              /\ outcome[s] = "true" <=> \A t \in Targets : res[s][t] = "true"

\* the post-placement stage over a pool has returned false: the worker of an
\* earlier target raised, a later target was still attempted and succeeded
C2_Witness ==
    /\ smode["post"] = "pool"
    /\ outcome["post"] = "false"
    /\ \E a, b \in Targets :
          /\ a < b
          /\ PostLocalOutcome(a) = "raise" /\ res["post"][a] = "false"
          /\ started["post"][b] = 1 /\ res["post"][b] = "true"
          /\ "exec" \in Issued(b)

\* C3: two targets on different hosts, concurrency limit 2, the session of one
\* target is refused: run returns false, and the other target still receives
\* the upload and the post-placement action.
C3_OtherTargetStillServed ==
    \A a, b \in Targets :
        ( /\ Returned
          /\ num_targets = 2 /\ max_concurrent_uploads = 2
          /\ a # b /\ host_key[a] # host_key[b]
          /\ connect_failures[host_key[a]] > 0 /\ opened[host_key[a]] = 0
          /\ res["transfer"][b] = "true"
          /\ PostLocalOutcome(b) = "exec" )
        => /\ run_result = "false"
           /\ "put" \in Issued(b)
           /\ started["post"][b] = 1

\* C4: run returns true exactly when validation, initialisation, every pull,
\* packaging, the transfer to every target and the post-placement action of
\* every target that has one succeeded; otherwise it returns false; it never
\* ends in an exception.
AllSucceeded ==
    /\ num_images > 0 /\ num_targets > 0
    /\ pull_idx = num_images /\ pull_ok
    /\ outcome["compress"] = "true"
    /\ \A t \in Targets :
          /\ "put" \in Issued(t)
          /\ EffectivePost(t)[1] # "" => "exec" \in Issued(t)

C4_RunResult ==
    /\ run_result \in {"none", "true", "false"}
    /\ run_result = "none" <=> run_pc \notin {"finally", "returned"}
    /\ Returned => (run_result = "true" <=> AllSucceeded)

\* run returned true after serving several targets, one of them with a
\* post-placement action
C4_Witness ==
    /\ Returned /\ run_result = "true"
    /\ num_targets > 1
    /\ \E t \in Targets : PostLocalOutcome(t) = "exec" /\ "exec" \in Issued(t)

\* C5: on every exit path of run every session opened during the run has been
\* closed exactly once and the session cache is empty when run returns.
C5_SessionsClosedOnce ==
    /\ \A k \in Keys : closed[k] <= opened[k] /\ live[k] >= 0
    /\ Returned => /\ clients = {}
                   /\ \A k \in Keys : live[k] = 0 /\ closed[k] = opened[k]

\* run returned false after a failed transfer stage in which a session was opened
C5_Witness ==
    /\ Returned /\ run_result = "false"
    /\ outcome["transfer"] = "false"
    /\ \E k \in Keys : opened[k] = 1 /\ closed[k] = 1

\* C6: for every interleaving of _get_client calls there is at most one live
\* session per "hostname:port" key: the connection is made once and every
\* caller for the key holds the cached session.
C6_OneSessionPerKey ==
    /\ \A k \in Keys : /\ live[k] <= 1
                       /\ opened[k] <= 1
                       /\ k \in clients => live[k] = 1
    /\ \A t \in Targets : pc[t] = "io" => host_key[t] \in clients

\* two workers for the same key are both past _get_client: one session was opened
C6_Witness ==
    \E a, b \in Targets :
        /\ a # b /\ host_key[a] = host_key[b]
        /\ pc[a] = "io" /\ pc[b] = "io"
        /\ opened[host_key[a]] = 1 /\ live[host_key[a]] = 1

\* C7: the cache lock is not held while a connection is being established: a
\* worker connecting to one host does not block a worker that asks for a
\* session to a different host.
C7_ConnectDoesNotBlockOtherHost ==
    \A a, b \in Targets :
        (pc[a] = "gc_connect" /\ pc[b] = "gc_wait" /\ host_key[a] # host_key[b])
        => clients_lock = <<>>

\* C8: the aggregate of a fan-out stage is evaluated only after every submitted
\* unit has finished: the stage does not return while a worker is running or
\* waiting, and a first failure does not end the stage.
C8_StageWaitsForUnits ==
    /\ run_pc # "in_stage" =>
          /\ Running = {} /\ Queued = {}
          /\ \A t \in Targets : pc[t] = "finished" => num_targets = 1
    /\ \A s \in FanOutStages :
          (smode[s] = "pool" /\ outcome[s] # "none") =>
              \A t \in Targets : res[s][t] # "none"

\* a failure has been collected and the stage is still waiting for a running worker
C8_Witness ==
    /\ run_pc = "in_stage" /\ smode[stage] = "pool"
    /\ ~all_success
    /\ Running # {}

\* C9: the number of workers of a fan-out stage running at the same time never
\* exceeds the requested limit clamped to 1..10, whatever integer the
\* Orchestrator was given; with exactly one target no pool is created.
C9_WorkersWithinClampedLimit ==
    /\ Cardinality(Running) <= ClampUploads(requested)
    /\ num_targets = 1 => pools_created = 0

Writes == {"mkdir", "mkdir!", "put", "put!"}

\* C10 as stated: transfer_file called with skip_if_exists=true while the
\* remote path exists returns true and performs no write operation (no put,
\* no directory creation).
C10_SkipWhenRemoteExists ==
    \A t \in Targets :
        (pc[t] = "finished" /\ skip_if_exists[t] /\ call_exists[t])
        => /\ res["transfer"][t] = "true"
           /\ Issued(t) \cap Writes = {}

\* C10 amended: transfer_file called with skip_if_exists=true whose existence
\* check finds the remote path returns true, and the check is the only remote
\* operation it issues; on a host that accepts the session and answers every
\* operation the check finds a path that exists.
C10_SkipWhenCheckFindsPath ==
    \A t \in Targets :
        (pc[t] = "finished" /\ skip_if_exists[t]) =>
            /\ "stat" \in Issued(t) =>
                  /\ res["transfer"][t] = "true"
                  /\ remote_log[t] = <<"stat">>
            /\ (call_exists[t] /\ host_state[host_key[t]] = "up") => "stat" \in Issued(t)

\* a call with skip_if_exists=true found the remote path and has returned
C10_Witness ==
    \E t \in Targets :
        /\ pc[t] = "finished" /\ skip_if_exists[t] /\ call_exists[t]
        /\ remote_log[t] = <<"stat">>
        /\ res["transfer"][t] = "true"

\* number of entries of the sequence q that lie in S
Count(q, S) == Cardinality({i \in DOMAIN q : q[i] \in S})
Puts == {"put", "put!"}

\* C11 as stated: transfer_file called with skip_if_exists=false issues exactly
\* one put, whether or not the remote path is already there.
C11_ExactlyOnePut ==
    \A t \in Targets :
        (pc[t] = "finished" /\ ~skip_if_exists[t]) => Count(remote_log[t], Puts) = 1

\* C11 amended: transfer_file called with skip_if_exists=false issues at most
\* one put; a call that returns true has issued exactly one; on a host that
\* accepts the session and answers every operation exactly one put is issued
\* unless the creation of a missing parent directory failed, whether or not
\* the remote path is already there.
C11_AtMostOnePut ==
    \A t \in Targets :
        ~skip_if_exists[t] =>
            /\ Count(remote_log[t], Puts) <= 1
            /\ pc[t] = "finished" =>
                  /\ res["transfer"][t] = "true" => Count(remote_log[t], {"put"}) = 1
                  /\ (host_state[host_key[t]] = "up" /\ "mkdir!" \notin Issued(t))
                        => Count(remote_log[t], {"put"}) = 1

\* a call without skip_if_exists has put the file over a remote path that was there
C11_Witness ==
    \E t \in Targets :
        /\ pc[t] = "finished" /\ ~skip_if_exists[t] /\ call_exists[t]
        /\ Count(remote_log[t], {"put"}) = 1
        /\ res["transfer"][t] = "true"

\* C12: transfer_file never raises: it returns a boolean; after a refused
\* session, a failed directory creation or a failed put it returns false; it
\* returns true only when the put completed or the transfer was skipped.
C12_TransferFileResult ==
    \A t \in Targets :
        pc[t] = "finished" =>
            /\ res["transfer"][t] \in {"true", "false"}
            /\ ("mkdir!" \in Issued(t) \/ "put!" \in Issued(t) \/ Issued(t) = {})
                  => res["transfer"][t] = "false"
            /\ res["transfer"][t] = "true" <=>
                  \/ "put" \in Issued(t)
                  \/ skip_if_exists[t] /\ remote_log[t] = <<"stat">>

\* a call has returned false after the host refused the session
C12_Witness ==
    \E t \in Targets :
        /\ pc[t] = "finished" /\ res["transfer"][t] = "false"
        /\ remote_log[t] = <<>>
        /\ connect_failures[host_key[t]] > 0 /\ opened[host_key[t]] = 0

\* the direct calls of one transport method that have returned
Done(method) == {t \in Targets : call[t] = method /\ pc[t] = "finished"}

\* C13: file_exists_remote returns true exactly when the remote stat succeeded
\* (which takes the path to be there), and false when the stat failed, when the
\* SFTP channel could not be opened and when the session could not be opened;
\* it never ends in anything but true or false.
C13_FileExistsRemoteResult ==
    \A t \in Done("file_exists_remote") :
        /\ res["transfer"][t] \in {"true", "false"}
        /\ res["transfer"][t] = "true" <=> remote_log[t] = <<"stat">>
        /\ res["transfer"][t] = "true" => remote_file[host_key[t]]
        /\ res["transfer"][t] = "false" <=> remote_log[t] \in {<<"stat!">>, <<>>}
        /\ host_key[t] \notin clients => res["transfer"][t] = "false"

\* two checks on one flaky host have returned: one found the path, the other
\* had the session but no SFTP channel and answered false
C13_Witness ==
    \E a, b \in Done("file_exists_remote") :
        /\ res["transfer"][a] = "true" /\ remote_log[a] = <<"stat">>
        /\ res["transfer"][b] = "false" /\ remote_log[b] = <<>>
        /\ host_key[b] \in clients

RECURSIVE EncodeUtf8(_)
EncodeUtf8(str) ==
    IF str = <<>> THEN <<>>
    ELSE (IF str[1] < 128 THEN <<str[1]>>
          ELSE IF str[1] < 2048 THEN <<192 + (str[1] \div 64), 128 + (str[1] % 64)>>
          ELSE <<239, 191, 189>>) \o EncodeUtf8(Tail(str))

\* the bytes are well-formed UTF-8 (of one- and two-byte sequences)
RECURSIVE ValidUtf8(_)
ValidUtf8(b) ==
    IF b = <<>> THEN TRUE
    ELSE IF b[1] < 128 THEN ValidUtf8(Tail(b))
    ELSE /\ b[1] \in 194..223 /\ Len(b) >= 2 /\ b[2] \in 128..191
         /\ ValidUtf8(SubSeq(b, 3, Len(b)))

\* the command of the direct call t ran on the remote host
Ran(t) == remote_log[t] # <<>>
ExitCodeOf(t) == IF remote_log[t] = <<"exec">> THEN 0 ELSE 2

\* C15: execute_remote returns the exit code and the bytes of standard output
\* and standard error unchanged: what it returns encodes back to what the
\* remote process wrote.
C15_OutputUnchanged ==
    \A t \in Done("execute_remote") :
        Ran(t) => /\ exec_ret[t][1] = ExitCodeOf(t)
                  /\ EncodeUtf8(exec_ret[t][2]) = remote_out[host_key[t]][1]
                  /\ EncodeUtf8(exec_ret[t][3]) = remote_out[host_key[t]][2]

\* C15 (amended): execute_remote returns the exit code unchanged, zero or not,
\* and each output stream decoded as UTF-8: unchanged when the bytes are
\* well-formed, with U+FFFD in place of every byte that is not; when the
\* command could not be run it returns the triple (1, "", error text); it
\* always returns a triple.
C15_ExecuteRemoteResult ==
    \A t \in Done("execute_remote") :
        /\ res["transfer"][t] = "returned" /\ Len(exec_ret[t]) = 3
        /\ Ran(t) =>
              /\ exec_ret[t][1] = ExitCodeOf(t)
              /\ \A i \in {1, 2} :
                    LET bytes == remote_out[host_key[t]][i]
                        text == exec_ret[t][i + 1]
                    IN  /\ ValidUtf8(bytes) => EncodeUtf8(text) = bytes
                        /\ ~ValidUtf8(bytes) => 65533 \in Range(text)
                        /\ Len(text) <= Len(bytes)
        /\ ~Ran(t) => exec_ret[t] = <<1, <<>>, <<101, 114, 114>>>>

\* a command that exited non-zero and wrote a byte that is not UTF-8 has
\* returned its code and the replaced text
C15_Witness ==
    \E t \in Done("execute_remote") :
        /\ remote_log[t] = <<"exec!">> /\ exec_ret[t][1] = 2
        /\ remote_out[host_key[t]][1] = <<255>>
        /\ exec_ret[t][2] = <<65533>>

\* the entry is_valid would read for these images, if the store has one
EntryFor(images) == Get(metadata.entries, get_cache_key(images, OutputPath))
HasEntryFor(images) ==
    metadata.kind = "object" /\ Has(metadata.entries, get_cache_key(images, OutputPath))

\* C16: is_valid(P, A) is true right after a successful update(P, A), false
\* once the file's bytes changed after that update, and false right after
\* update was called with an artifact set of another key.
C16_ValidUntilChangeOrOtherUpdate ==
    \A i \in 2..Len(cache_ops) :
        LET this == cache_ops[i]
            prev == cache_ops[i - 1]
        IN  this.op = "is_valid" =>
              /\ (prev.op = "update" /\ prev.ret = "true" /\ prev.images = this.images)
                    => this.ret = "true"
              /\ ( /\ prev.op = "write" /\ prev.ret = "changed" /\ i >= 3
                    /\ cache_ops[i - 2] = CacheOp("update", this.images, "true") )
                    => this.ret = "false"
              /\ ( /\ prev.op = "update"
                    /\ get_cache_key(prev.images, OutputPath) # get_cache_key(this.images, OutputPath) )
                    => this.ret = "false"

\* C17: is_valid returns true or false and nothing else; true exactly when the
\* file is there, the store has an entry for the key, the recorded
\* modification time is the file's and the recorded digest is the digest of
\* the file's bytes.
C17_IsValidFailsClosed ==
    (cache_ops # <<>> /\ cache_ops[Len(cache_ops)].op = "is_valid") =>
        LET this == cache_ops[Len(cache_ops)]
        IN  /\ this.ret \in {"true", "false"}
            /\ this.ret = "true" <=>
                  /\ file_exists /\ HasEntryFor(this.images)
                  /\ EntryFor(this.images).mtime = file_mtime
                  /\ EntryFor(this.images).sha256 = _compute_sha256(file_bytes)

\* the stored document is not a store: it cannot be read, is no JSON object,
\* or has a member that is no entry
CorruptDoc(doc) ==
    \/ doc.kind \in {"unreadable", "number", "null", "array"}
    \/ doc.kind = "object" /\ \E k \in DOMAIN doc.entries : doc.entries[k].kind # "object"

\* C20: over a corrupt cache document the store loads as empty and is_valid
\* returns false; no exception leaves the call.
C20_CorruptStoreIsMiss ==
    CorruptDoc(metadata_file) =>
        /\ metadata_file.kind = "unreadable" => metadata = JsonObject(EmptyDict)
        /\ (Len(cache_ops) = 1 /\ cache_ops[1].op = "is_valid") => cache_ops[1].ret = "false"

\* the call made last on the ResumeManager
LastLedgerOp == ledger_ops[Len(ledger_ops)]
AfterGetProgress == ledger_ops # <<>> /\ LastLedgerOp.op = "get_progress"
\* the live file has the size and the modification time the entry recorded
Unchanged(doc) == doc.file_size = local_size /\ doc.local_mtime = local_mtime

\* C18: for every triple, get_progress over an entry written by save_progress
\* returns none and deletes the entry when the local file's size or
\* modification time is not the recorded one, complete transfer or not, and
\* returns the entry, which stays stored, when both are the recorded ones; it
\* returns an entry in no other case.
C18_GetProgressSelfInvalidates ==
    AfterGetProgress =>
        LET e == LastLedgerOp
            key == get_resume_key(e.triple)
        IN  /\ (e.had.kind = "object" /\ local_exists /\ ~Unchanged(e.had))
                  => e.ret = "none" /\ ~Has(ledger, key)
            /\ (e.had.kind = "object" /\ local_exists /\ Unchanged(e.had))
                  => e.ret = "entry" /\ Has(ledger, key) /\ ledger[key] = e.had
            /\ e.ret = "entry" => e.had.kind = "object" /\ local_exists /\ Unchanged(e.had)

\* save_progress recorded a complete transfer, the file then changed its
\* size, and get_progress for the triple returned none and deleted the entry
C18_Witness ==
    /\ Len(ledger_ops) = 3
    /\ ledger_ops[1].op = "save_progress" /\ ledger_ops[1].ret = "true"
    /\ ledger_ops[1].had.transferred_bytes = ledger_ops[1].had.total_bytes
    /\ ledger_ops[2].op = "change"
    /\ ledger_ops[3].op = "get_progress" /\ ledger_ops[3].triple = ledger_ops[1].triple
    /\ ledger_ops[3].had = ledger_ops[1].had
    /\ ledger_ops[3].had.file_size # local_size
    /\ ledger_ops[3].ret = "none"
    /\ ~Has(ledger, get_resume_key(ledger_ops[3].triple))

\* C19: after cleanup no entry older than the maximum age is left, and every
\* younger entry is still there.
C19_CleanupPurgesOldEntries ==
    (ledger_ops # <<>> /\ LastLedgerOp.op = "cleanup") =>
        \A k \in DOMAIN ledger : now - ledger[k].saved_at <= MaxAgeSeconds

\* ------------------------------------------------- post-instruction claims
PostStarted(t) == started["post"][t] > 0
DeclaresPlugin(config) == Has(config, "plugin") /\ config["plugin"] # ""
ExampleGlobal == [a |-> "1", b |-> "2"]
ExampleTarget == [b |-> "3", c |-> "4"]

\* C21: The action a target's post-instruction unit applies is named by the
\* target when the target names one and by the global configuration
\* otherwise; its options are the global options with every key the target
\* gives taking the target's value ({a:1,b:2} and {b:3,c:4} give
\* {a:1,b:3,c:4}); the two option dictionaries given are left as they were.
C21_MergedPostInstruction ==
    \A t \in Targets : PostStarted(t) =>
        LET g == global_post
            c == target_post[t]
            m == MergePostInstructions(g, c)
            h == MergeOptions(g, c)
        IN  /\ m[1] = IF DeclaresPlugin(c) THEN c["plugin"]
                      ELSE IF DeclaresPlugin(g) THEN g["plugin"] ELSE ""
            /\ DOMAIN m[2] = DOMAIN OptionsOf(g) \cup DOMAIN OptionsOf(c)
            /\ \A k \in DOMAIN m[2] :
                   m[2][k] = IF k \in DOMAIN OptionsOf(c) THEN OptionsOf(c)[k]
                             ELSE OptionsOf(g)[k]
            /\ (OptionsOf(g) = ExampleGlobal /\ OptionsOf(c) = ExampleTarget) =>
                   m[2] = [a |-> "1", b |-> "3", c |-> "4"]
            /\ h.global = OptionsOf(g)
            /\ h.target = OptionsOf(c)

\* the unit of a target with the example options has run its command, and
\* the unit of another target has named its own plugin
C21_Witness ==
    \E t, u \in Targets :
        /\ OptionsOf(global_post) = ExampleGlobal
        /\ OptionsOf(target_post[t]) = ExampleTarget
        /\ pc[t] = "collected" /\ "exec" \in Issued(t)
        /\ DeclaresPlugin(target_post[u]) /\ DeclaresPlugin(global_post)
        /\ target_post[u]["plugin"] # global_post["plugin"]
        /\ PostStarted(u)

NamesNoPlugin(t) == ~DeclaresPlugin(target_post[t]) /\ ~DeclaresPlugin(global_post)
PostDone == run_pc = "post_done"

\* C22: In the post-instruction stage a target for which neither the global
\* nor its own configuration names a plugin is skipped: no remote command is
\* sent for it, its unit never gives a failure, and it never makes the stage
\* fail, whether the stage runs one target inline or several on the pool.
C22_NoPluginIsSkipped ==
    /\ \A t \in Targets : NamesNoPlugin(t) =>
           /\ remote_log[t] = <<>>
           /\ res["post"][t] # "false"
           /\ pc[t] \in {"finished", "collected"} => res["post"][t] = "true"
    /\ (PostDone /\ outcome["post"] # "true") =>
           \E u \in Targets : ~NamesNoPlugin(u) /\ res["post"][u] = "false"

\* a lone target was skipped inline although post-instructions are configured
C22_WitnessSingle ==
    /\ PostDone /\ num_targets = 1 /\ smode["post"] = "inline"
    /\ NamesNoPlugin(1) /\ res["post"][1] = "true" /\ outcome["post"] = "true"

\* a target was skipped on the pool while another target ran its command
C22_WitnessPool ==
    /\ PostDone /\ smode["post"] = "pool" /\ outcome["post"] = "true"
    /\ \E t, u \in Targets :
           /\ NamesNoPlugin(t) /\ res["post"][t] = "true"
           /\ "exec" \in Issued(u)

\* the name in force for target t: the target's own, else the global one
NameInForce(t) ==
    IF DeclaresPlugin(target_post[t]) THEN target_post[t]["plugin"]
    ELSE IF DeclaresPlugin(global_post) THEN global_post["plugin"] ELSE ""
NamesUnknownPlugin(t) == NameInForce(t) \notin KnownPlugins \cup {""}
ExecCalls == {"exec", "exec!"}

\* C23: A target whose plugin name is not one of the known plugins gets a
\* failed result: its unit sends no remote command, the stage returns False
\* rather than raising, and every other target of the stage is still
\* processed (a target with well-typed generic_ssh options has its command sent).
C23_UnknownPluginFailsTarget ==
    /\ \A t \in Targets : NamesUnknownPlugin(t) =>
           /\ remote_log[t] = <<>>
           /\ res["post"][t] # "true"
           /\ PostDone => /\ res["post"][t] = "false"
                           /\ outcome["post"] = "false"
                           /\ \A u \in Targets :
                                  /\ started["post"][u] = 1
                                  /\ res["post"][u] # "none"
                                  /\ ( /\ target_post[u] = [plugin |-> "generic_ssh",
                                                           options |-> [command |-> CmdOk]]
                                       /\ ~Has(OptionsOf(global_post), "use_sudo") )
                                        => Issued(u) \cap ExecCalls # {}

\* the stage is over: one target named an unknown plugin, the other ran its command
C23_Witness ==
    /\ PostDone
    /\ \E t, u \in Targets :
           /\ NamesUnknownPlugin(t) /\ res["post"][t] = "false"
           /\ ~NamesUnknownPlugin(u) /\ "exec" \in Issued(u) /\ res["post"][u] = "true"

\* the options in force for target t
OptionsInForce(t) == Update(OptionsOf(global_post), OptionsOf(target_post[t]))
BoolKeys(name) == IF name = "generic_ssh" THEN {"use_sudo"} ELSE {"use_sudo", "cleanup_tar"}
StrKeys(name) ==
    CASE name = "docker" -> {"docker_cmd", "sudo_password"}
      [] name = "generic_ssh" -> {"command", "sudo_password"}
      [] OTHER -> {"k3s_path", "containerd_path", "sudo_password"}
\* an option of the plugin has a value of the wrong type, or the required
\* command of generic_ssh is missing
BadlyTyped(name, o) ==
    \/ \E k \in BoolKeys(name) \cap DOMAIN o : o[k] \notin {PyTrue, PyFalse}
    \/ \E k \in StrKeys(name) \cap DOMAIN o : o[k] \notin Strings
    \/ name = "generic_ssh" /\ "command" \notin DOMAIN o

\* C25: Each of the plugins docker, generic_ssh and k3s_airgap checks the
\* types of its options before it touches the host: validate_options gives
\* False exactly for badly typed options, and then execute gives False and
\* the unit sends no remote command.
C25_ValidationBeforeRemote ==
    \A t \in Targets : NameInForce(t) \in KnownPlugins =>
        /\ ValidateOptions(NameInForce(t), OptionsInForce(t))
              <=> ~BadlyTyped(NameInForce(t), OptionsInForce(t))
        /\ ~ValidateOptions(NameInForce(t), OptionsInForce(t)) =>
              /\ remote_log[t] = <<>>
              /\ res["post"][t] # "true"
              /\ pc[t] \in {"finished", "collected"} => res["post"][t] = "false"

\* the unit of a target with badly typed options has returned, for each plugin
RejectedBy(name) ==
    \E t \in Targets :
        /\ NameInForce(t) = name /\ BadlyTyped(name, OptionsInForce(t))
        /\ pc[t] \in {"finished", "collected"} /\ res["post"][t] = "false"
C25_Witness ==
    /\ RejectedBy("generic_ssh")
    /\ RejectedBy("docker") \/ RejectedBy("k3s_airgap")
C25_WitnessDocker == RejectedBy("docker")
C25_WitnessK3s == RejectedBy("k3s_airgap")

\* ------------------------------------------------------- validation claims
InvalidConfig == num_images = 0 \/ num_targets = 0

\* C26: When the configuration has no images or no targets, run returns False
\* without entering any stage: no image is pulled, the archive is neither
\* removed nor built, no session is opened or attempted, and run is only ever
\* at its validation or returned.
C26_InvalidConfigStopsRun ==
    InvalidConfig =>
        /\ run_pc \in {"validate", "returned"}
        /\ Returned => run_result = "false"
        /\ stages_started = <<>> /\ pull_idx = 0
        /\ \A st \in StageNames : outcome[st] = "none"
        /\ saves = 0
        /\ \A k \in Keys : opened[k] = 0 /\ connect_failures[k] = 0
        /\ \A t \in Targets : remote_log[t] = <<>>

\* run has returned for a configuration with targets and no image, with an
\* archive of an earlier run on disk
C26_Witness ==
    /\ Returned /\ run_result = "false" /\ tar_exists
    /\ num_images = 0 /\ num_targets > 0

SomeUnknownPlugin == \E t \in Targets : NamesUnknownPlugin(t)

\* C24: A plugin name that is none of the known plugins is rejected when the
\* configuration is validated, before anything goes over the network: run
\* returns False, opens or attempts no session and sends nothing to a host.
C24_UnknownPluginRejectedAtValidation ==
    SomeUnknownPlugin =>
        /\ Returned => run_result = "false"
        /\ \A k \in Keys : opened[k] = 0 /\ connect_failures[k] = 0
        /\ \A t \in Targets : remote_log[t] = <<>>

\* ---------------------------------------------------------- caching claims
CachedAndValid == IsValidResult(OutputPath, DeployImages) = "true"
NoCacheAnywhere == ~no_cache /\ ~config_no_cache

\* C27: With one target, no no-cache flag and an archive on disk that the
\* cache holds as valid, packaging is skipped (save_images is never called
\* and the archive stays where it is), a run whose transfer succeeded has
\* uploaded once, and a run whose stages all succeeded returns True.
C27_CachedArchiveSkipsPackaging ==
    (num_targets = 1 /\ CachedAndValid /\ NoCacheAnywhere) =>
        /\ saves = 0
        /\ tar_exists
        /\ outcome["transfer"] = "true" => Count(remote_log[1], Puts) = 1
        /\ (Returned /\ outcome["transfer"] = "true" /\ outcome["post"] = "true")
              => run_result = "true"

\* C30: The transfer stage calls transfer_file with skip_if_exists=True exactly
\* when neither the Orchestrator's no_cache nor config.no_cache is set, and
\* with skip_if_exists=False otherwise.
C30_SkipIfExistsFromNoCache ==
    \A t \in Targets :
        started["transfer"][t] > 0 => (skip_if_exists[t] <=> NoCacheAnywhere)

\* ---------------------------------------------------------- session claims
OnDisk(path) == path # "" /\ path \in key_files
SessionTried(t) == opened[host_key[t]] + connect_failures[host_key[t]] > 0
\* the credentials the stated precedence allows for target t
AllowedCredentials(t) ==
    {c \in {Get(ssh_options[t], "key_file"), Get(transport_options, "key_file")} : OnDisk(c)}
    \cup ({Get(ssh_options[t], "password"), Get(transport_options, "password")} \ {""})
    \cup {Agent}

\* C28: The credentials of a session are taken in the order per-target key
\* file, per-target password, global key file, global password, agent,
\* default keys.  The key file given to connect is the per-target one when it
\* is on disk and otherwise the global one when that is on disk; the password
\* is the per-target one, else the global one; so a host that accepts one of
\* these credentials opens the session.
C28_CredentialPrecedence ==
    \A t \in Targets : SessionTried(t) =>
        LET c == MergeSshConfig(t)
            tk == Get(ssh_options[t], "key_file")
            gk == Get(transport_options, "key_file")
            tp == Get(ssh_options[t], "password")
            gp == Get(transport_options, "password")
        IN  /\ OnDisk(tk) => Get(c, "key_filename") = tk
            /\ (~OnDisk(tk) /\ OnDisk(gk)) => Get(c, "key_filename") = gk
            /\ Get(c, "password") = IF tp # "" THEN tp ELSE gp
            /\ AllowedCredentials(t) \cap authorized[host_key[t]] # {}
                  => connect_failures[host_key[t]] = 0

\* C29: Under strict host verification (skip_host_verification false) no
\* session is opened to a host whose key is not among the known hosts; such
\* a host gets a session only when verification is skipped.
C29_StrictModeRejectsUnknownHost ==
    \A k \in Keys :
        (~skip_host_verification /\ k \notin known_hosts) => opened[k] = 0

\* ----------------------------------------------------- transfer stage claims
NoNetworkUse ==
    /\ \A k \in Keys : opened[k] = 0 /\ connect_failures[k] = 0
    /\ \A t \in Targets : remote_log[t] = <<>> /\ sftp[t] = <<0, 0>>

\* C31: When the local archive is missing as the transfer stage starts,
\* _transfer_to_target returns False: transfer_file is called for no target,
\* no unit is started, and no session is opened or attempted.
C31_MissingArchiveStopsTransfer ==
    ~tar_exists =>
        /\ NoNetworkUse
        /\ \A t \in Targets : started["transfer"][t] = 0 /\ pc[t] = "idle"
        /\ run_pc \in {"transfer", "transfer_done"}
        /\ run_pc = "transfer_done" => outcome["transfer"] = "false"
        /\ pools_created = 0

\* the stage has returned for two targets without an archive
C31_Witness ==
    /\ ~tar_exists /\ num_targets > 1
    /\ run_pc = "transfer_done" /\ outcome["transfer"] = "false"

\* ---------------------------------------------------------- upload claims
DirChecks == {"statdir", "statdir!"}
DirCreations == {"mkdir", "mkdir!"}
NewEvents(t) == SubSeq(remote_log'[t], Len(remote_log[t]) + 1, Len(remote_log'[t]))

\* in the operations of one unit every put comes after a look at the parent
\* directory (and after its creation when the look found none), and a
\* creation comes right after a look that found none
DirectoryBeforePut(log) ==
    \A i \in DOMAIN log :
        /\ log[i] \in Puts =>
              \E j \in 1..(i - 1) :
                  /\ log[j] \in DirChecks
                  /\ \A m \in (j + 1)..(i - 1) : log[m] \in DirCreations
                  /\ log[j] = "statdir!" => \E m \in (j + 1)..(i - 1) : log[m] = "mkdir"
        /\ log[i] \in DirCreations => i > 1 /\ log[i - 1] = "statdir!"

OperationReturned(t) == pc[t] \in {"finished", "collected"}

\* C33: Every SFTP channel that file_exists_remote or transfer_file opened
\* is closed exactly once by the time the operation returns, whether it
\* succeeded or failed at the stat, at the directory creation or at the put;
\* no channel is closed more often than it was opened.
C33_ChannelsClosedOnReturn ==
    \A t \in Targets :
        /\ sftp[t][2] <= sftp[t][1]
        /\ OperationReturned(t) => sftp[t][2] = sftp[t][1]

CloseBegun == run_pc = "returned"

\* C34: Transport.close is called only after every worker of both fan-out
\* stages has finished: when run reaches its finally clause no unit is
\* queued, waiting for a session or using one, and once close has run no
\* upload and no remote command is started on any session.
C34_CloseAfterAllWorkers ==
    /\ [](run_pc \in {"finally", "returned"} => (Running = {} /\ Queued = {}))
    /\ [][CloseBegun => (remote_log' = remote_log /\ sftp' = sftp /\ started' = started)]_vars

\* both stages fanned out over a pool, uploads and remote commands were issued,
\* and close then closed a session they had used
C34_Witness ==
    /\ CloseBegun
    /\ smode["transfer"] = "pool" /\ smode["post"] = "pool"
    /\ \E t \in Targets : "put" \in Issued(t) /\ "exec" \in Issued(t)
    /\ \E k \in Keys : closed[k] = 1 /\ live[k] = 0

ConnectFailed(t) ==
    /\ pc[t] = "gc_connect"
    /\ connect_failures'[host_key[t]] = connect_failures[host_key[t]] + 1

\* C35: A failed connection attempt in _get_client leaves the session cache
\* as it was, releases the cache lock and raises (the caller gets no session);
\* a later _get_client call for the same key connects again: a caller is
\* handed a session without connecting only when a live one is cached.
C35_FailedConnectLeavesCache ==
    /\ [][\A t \in Targets :
            ConnectFailed(t) => /\ clients' = clients
                                /\ clients_lock' = <<>>
                                /\ pc'[t] # "io"]_vars
    /\ [][\A t \in Targets :
            (pc[t] = "gc_wait" /\ pc'[t] # "gc_wait")
            => IF host_key[t] \in clients /\ live[host_key[t]] = 1
               THEN pc'[t] = "io"
               ELSE pc'[t] = "gc_connect"]_vars

\* after a failed attempt for a key a later call connected to it
C35_Witness ==
    \E k \in Keys : connect_failures[k] = 1 /\ opened[k] = 1 /\ k \in clients

\* two calls for one key both attempted the connection and both failed
C35_WitnessTwice ==
    \E k \in Keys : connect_failures[k] = 2 /\ clients = {} /\ clients_lock = <<>>

\* the existence check of transfer_file for t ended in its exception handler:
\* no session, or no SFTP channel
CheckUnreachable(t) == skip_if_exists[t] /\ "debug:exists" \in Range(logged[t])
\* the upload was attempted: it failed in transfer_file's handler, or the put was made
UploadAttempted(t) == "error:transfer" \in Range(logged[t]) \/ "put" \in Issued(t)

\* C36: With skip_if_exists=true, when the existence check cannot reach the
\* host, transfer_file takes the remote file to be absent and goes on to the
\* upload, asking for a session again, instead of skipping or failing at the
\* check; when that second attempt gets a session and a channel, the put is
\* made over a remote file that is there, and a put that succeeds gives true.
C36_UnreachableCheckThenUpload ==
    \A t \in Targets :
        CheckUnreachable(t) =>
            /\ op[t] # "exists"
            /\ "stat" \notin Issued(t)
            /\ pc[t] = "finished" =>
                  /\ UploadAttempted(t)
                  /\ res["transfer"][t] = "true" <=> "put" \in Issued(t)
                  /\ SubSeq(logged[t], 1, 1) = <<"error:connect">> =>
                        \/ connect_failures[host_key[t]] >= 2
                        \/ opened[host_key[t]] >= 1
                  /\ (call_exists[t] /\ "statdir" \in Issued(t)) =>
                        Issued(t) \cap Puts # {}

\* the check got no session, the second attempt did, and the file that was
\* there has been put again
C36_Witness ==
    \E t \in Targets :
        /\ pc[t] = "finished" /\ skip_if_exists[t] /\ call_exists[t]
        /\ logged[t] = <<"error:connect", "debug:exists">>
        /\ remote_log[t] = <<"statdir", "put">>
        /\ res["transfer"][t] = "true"

\* the action of target t has returned and its main command was never run:
\* no session for it, or exec_command raised
MainCommandNotRun(t) ==
    /\ res["post"][t] # "none"
    /\ PostLocalOutcome(t) = "exec"
    /\ Issued(t) \cap {"exec", "exec!"} = {}

PullReturned == outcome["pull"] # "none"

\* C38: The pull stage attempts to pull every configured image, in the order
\* of the configuration, also after an earlier pull failed, and returns true
\* exactly when every pull succeeded.
C38_PullsEveryImage ==
    /\ Len(pulls) <= num_images
    /\ \A i \in DOMAIN pulls : pulls[i][1] = i
    /\ PullReturned =>
          /\ Len(pulls) = num_images
          /\ outcome["pull"] = "true" <=> \A i \in DOMAIN pulls : pulls[i][2]

\* the first pull failed, the images after it were pulled all the same, and
\* the stage returned false
C38_Witness ==
    /\ PullReturned /\ outcome["pull"] = "false"
    /\ num_images >= 2 /\ Len(pulls) = num_images
    /\ ~pulls[1][2] /\ pulls[2][2]

CleanupEvents == {"cleanup", "cleanup!"}
\* the plugin of target t was told, or left, to remove the archive
CleanupRequested(t) ==
    /\ EffectivePost(t)[1] \in {"docker", "k3s_airgap"}
    /\ Get(EffectivePost(t)[2], "cleanup_tar") \in {"", PyTrue}
\* where the first cleanup command stands in the log of t (0: none was issued)
FirstCleanup(t) ==
    IF Issued(t) \cap CleanupEvents = {} THEN 0
    ELSE CHOOSE i \in DOMAIN remote_log[t] :
             /\ remote_log[t][i] \in CleanupEvents
             /\ \A j \in 1..(i - 1) : remote_log[t][j] \notin CleanupEvents

\* C39: In the docker and k3s_airgap actions the cleanup command is issued
\* only after the main command returned exit code 0 and only when cleanup_tar
\* is true; a cleanup that fails, or that cannot be run, leaves the result of
\* the action true.
C39_CleanupAfterSuccessOnly ==
    \A t \in Targets :
        /\ (op[t] = "cleanup" \/ Issued(t) \cap CleanupEvents # {}) =>
              /\ CleanupRequested(t)
              /\ exec_ret[t][1] = 0
              /\ "exec" \in Issued(t) /\ "exec!" \notin Issued(t)
        /\ FirstCleanup(t) > 0 => remote_log[t][FirstCleanup(t) - 1] = "exec"
        /\ Count(remote_log[t], CleanupEvents) <= 1
        /\ (res["post"][t] # "none" /\ "exec" \in Issued(t)) => res["post"][t] = "true"
        /\ (res["post"][t] # "none" /\ "exec" \in Issued(t) /\ CleanupRequested(t)) =>
              \/ Issued(t) \cap CleanupEvents # {}
              \/ "error:execute" \in Range(logged[t])

\* a docker action and a k3s_airgap action returned true after their cleanup
\* failed: one ran with a non-zero exit code, the other could not be run
C39_Witness ==
    \E a, b \in Targets :
        /\ EffectivePost(a)[1] = "docker" /\ EffectivePost(b)[1] = "k3s_airgap"
        /\ remote_log[a] = <<"exec", "cleanup!">> /\ res["post"][a] = "true"
        /\ remote_log[b] = <<"exec">> /\ logged[b] = <<"error:execute">> /\ res["post"][b] = "true"

\* the main command of an action without cleanup succeeded and nothing was removed
C39_WitnessNoCleanup ==
    \E t \in Targets :
        /\ EffectivePost(t)[1] = "docker" /\ ~CleanupRequested(t)
        /\ res["post"][t] = "true" /\ remote_log[t] = <<"exec">>
        /\ remote_file[host_key[t]]

\* the successful update calls so far, by position in cache_ops
Updates == {i \in DOMAIN cache_ops : cache_ops[i].op = "update" /\ cache_ops[i].ret = "true"}
SameArtifacts(i, j) ==
    /\ Range(cache_ops[i].images) = Range(cache_ops[j].images)
    /\ Basename(cache_ops[i].file_path) = Basename(cache_ops[j].file_path)
KeyOf(i) == get_cache_key(cache_ops[i].images, cache_ops[i].file_path)
\* the last successful update for the artifacts and file name of update i
LastFor(i) == CHOOSE j \in Updates :
                 /\ SameArtifacts(i, j)
                 /\ \A k \in Updates : SameArtifacts(i, k) => k <= j

\* C40: The cache key depends only on the set of artifact names and the
\* basename of the output path: it is the same for every ordering of the
\* names and for every path with that basename, so update(P1, A) followed by
\* update(P2, A) for two paths with the same basename leaves a single entry,
\* the one written for P2.
C40_KeyFromNamesAndBasename ==
    /\ \A A, B \in ImageLists : \A P, Q \in CachePaths :
          (Range(A) = Range(B) /\ Basename(P) = Basename(Q))
          => get_cache_key(A, P) = get_cache_key(B, Q)
    /\ \A i \in Updates :
          /\ Has(metadata.entries, KeyOf(i))
          /\ KeyOf(i) = KeyOf(LastFor(i))
          /\ metadata.entries[KeyOf(i)].file_path = cache_ops[LastFor(i)].file_path
          /\ metadata.entries[KeyOf(i)].sha256 = _compute_sha256(FileAt(cache_ops[LastFor(i)].file_path).bytes)
    /\ Cardinality(DOMAIN metadata.entries)
          <= Cardinality(DOMAIN LoadMetadata(metadata_file).entries \cup {KeyOf(i) : i \in Updates})
    /\ Cardinality({KeyOf(i) : i \in Updates})
          = Cardinality({<<Range(cache_ops[i].images), Basename(cache_ops[i].file_path)>> : i \in Updates})

\* update for two images under one path, then for the same images in the
\* other order under a path with the same file name: one entry, for the
\* second path and its file
C40_Witness ==
    /\ Len(cache_ops) = 2
    /\ cache_ops[1] = CacheOpAt("update", OutputPath, <<"a", "b">>, "true")
    /\ cache_ops[2] = CacheOpAt("update", OtherPath, <<"b", "a">>, "true")
    /\ Cardinality(DOMAIN metadata.entries) = 1
    /\ \A k \in DOMAIN metadata.entries :
          metadata.entries[k] = CacheEntryAt(OtherPath, _compute_sha256("y"), 2)

====
